---------------------------- MODULE Spec2Model ----------------------------
(***************************************************************************)
(* The chess search worker (chess-worker.js) and the parts of the game     *)
(* (chess.js) that talk to it, as a state machine.                         *)
(*                                                                         *)
(* Rows and columns are the source's: row 0 is rank 8 (black's back rank), *)
(* row 7 is rank 1, column 0 is file a.  A piece is the source's letter    *)
(* (upper case white, lower case black); the source's null is "".          *)
(***************************************************************************)
EXTENDS Integers, Sequences, FiniteSets, TLC

(***************************************************************************)
(* Pieces, colours, squares                                                *)
(***************************************************************************)
null == ""

WhitePieces == {"P", "N", "B", "R", "Q", "K"}
BlackPieces == {"p", "n", "b", "r", "q", "k"}

\* piece.toLowerCase()
toLowerCase(piece) ==
    CASE piece \in {"P", "p"} -> "p"
      [] piece \in {"N", "n"} -> "n"
      [] piece \in {"B", "b"} -> "b"
      [] piece \in {"R", "r"} -> "r"
      [] piece \in {"Q", "q"} -> "q"
      [] OTHER -> "k"

getPieceColor(piece) == IF piece \in WhitePieces THEN "white" ELSE "black"

opponentOf(color) == IF color = "white" THEN "black" ELSE "white"

isValidSquare(row, col) == row >= 0 /\ row < 8 /\ col >= 0 /\ col < 8

PIECE_VALUES(piece) ==
    CASE toLowerCase(piece) = "p" -> 100
      [] toLowerCase(piece) = "n" -> 320
      [] toLowerCase(piece) = "b" -> 330
      [] toLowerCase(piece) = "r" -> 500
      [] toLowerCase(piece) = "q" -> 900
      [] OTHER -> 20000

\* JavaScript's Infinity: above every finite score the engine can produce.
Infinity == 100000000

MATE_SCORE == 999999

Abs(x) == IF x < 0 THEN -x ELSE x
Max(x, y) == IF x > y THEN x ELSE y
Min(x, y) == IF x < y THEN x ELSE y

\* The enPassantTarget when there is none (the source's null).
NoTarget == [row |-> -1, col |-> -1]

NoCastling == [white |-> [kingside |-> FALSE, queenside |-> FALSE],
               black |-> [kingside |-> FALSE, queenside |-> FALSE]]

AllCastling == [white |-> [kingside |-> TRUE, queenside |-> TRUE],
                black |-> [kingside |-> TRUE, queenside |-> TRUE]]

EmptyBoard == [r \in 0..7 |-> [c \in 0..7 |-> null]]

\* The squares in the order of the source's nested loops (row, then column).
SquareAt(i) == [row |-> (i - 1) \div 8, col |-> (i - 1) % 8]
AllSquares == [i \in 1..64 |-> SquareAt(i)]

RECURSIVE Flatten(_)
Flatten(seqs) ==
    IF seqs = <<>> THEN <<>>
    ELSE IF Len(seqs) = 1 THEN seqs[1]
    ELSE LET half == Len(seqs) \div 2
         IN  Flatten(SubSeq(seqs, 1, half)) \o Flatten(SubSeq(seqs, half + 1, Len(seqs)))

Range(s) == {s[i] : i \in 1..Len(s)}
Front(s) == SubSeq(s, 1, Len(s) - 1)

(***************************************************************************)
(* Move generation (chess-worker.js; chess.js holds the same code as       *)
(* methods of ChessGame).  g is the position the functions read from the   *)
(* worker's globals: g.board, g.castlingRights, g.enPassantTarget.         *)
(***************************************************************************)
getPawnMoves(g, row, col) ==
    LET piece == g.board[row][col]
        direction == IF piece = "P" THEN -1 ELSE 1
        startRow == IF piece = "P" THEN 6 ELSE 1
        forward ==
            IF isValidSquare(row + direction, col) /\ g.board[row + direction][col] = null
            THEN <<[row |-> row + direction, col |-> col]>> \o
                 (IF row = startRow /\ g.board[row + 2 * direction][col] = null
                  THEN <<[row |-> row + 2 * direction, col |-> col]>>
                  ELSE <<>>)
            ELSE <<>>
        capture(colOffset) ==
            LET newRow == row + direction
                newCol == col + colOffset
            IN  IF isValidSquare(newRow, newCol)
                THEN (IF g.board[newRow][newCol] # null /\
                         getPieceColor(g.board[newRow][newCol]) # getPieceColor(piece)
                      THEN <<[row |-> newRow, col |-> newCol]>> ELSE <<>>) \o
                     (IF g.enPassantTarget # NoTarget /\
                         newRow = g.enPassantTarget.row /\ newCol = g.enPassantTarget.col
                      THEN <<[row |-> newRow, col |-> newCol]>> ELSE <<>>)
                ELSE <<>>
    IN  forward \o capture(-1) \o capture(1)

\* The squares at the given offsets that are on the board and not held by a
\* piece of the mover's colour (the loop of getKnightMoves and getKingMoves).
OffsetMoves(g, row, col, offsets) ==
    LET cand == [i \in 1..Len(offsets) |->
                    [row |-> row + offsets[i][1], col |-> col + offsets[i][2]]]
        ok(m) == /\ isValidSquare(m.row, m.col)
                 /\ \/ g.board[m.row][m.col] = null
                    \/ getPieceColor(g.board[m.row][m.col]) # getPieceColor(g.board[row][col])
    IN  SelectSeq(cand, ok)

KnightOffsets == << <<-2, -1>>, <<-2, 1>>, <<-1, -2>>, <<-1, 2>>,
                    <<1, -2>>, <<1, 2>>, <<2, -1>>, <<2, 1>> >>

KingOffsets == << <<-1, -1>>, <<-1, 0>>, <<-1, 1>>, <<0, -1>>,
                  <<0, 1>>, <<1, -1>>, <<1, 0>>, <<1, 1>> >>

BishopDirections == << <<-1, -1>>, <<-1, 1>>, <<1, -1>>, <<1, 1>> >>
RookDirections == << <<-1, 0>>, <<1, 0>>, <<0, -1>>, <<0, 1>> >>
QueenDirections == KingOffsets

getKnightMoves(g, row, col) == OffsetMoves(g, row, col, KnightOffsets)

\* One ray of getSlidingMoves: the while loop from (newRow, newCol) on.
RECURSIVE SlideRay(_, _, _, _, _, _)
SlideRay(g, piece, newRow, newCol, rowDir, colDir) ==
    IF ~isValidSquare(newRow, newCol) THEN <<>>
    ELSE IF g.board[newRow][newCol] = null
         THEN <<[row |-> newRow, col |-> newCol]>> \o
              SlideRay(g, piece, newRow + rowDir, newCol + colDir, rowDir, colDir)
         ELSE IF getPieceColor(g.board[newRow][newCol]) # getPieceColor(piece)
              THEN <<[row |-> newRow, col |-> newCol]>>
              ELSE <<>>

getSlidingMoves(g, row, col, directions) ==
    Flatten([i \in 1..Len(directions) |->
                SlideRay(g, g.board[row][col], row + directions[i][1], col + directions[i][2],
                         directions[i][1], directions[i][2])])

getBishopMoves(g, row, col) == getSlidingMoves(g, row, col, BishopDirections)
getRookMoves(g, row, col) == getSlidingMoves(g, row, col, RookDirections)
getQueenMoves(g, row, col) == getSlidingMoves(g, row, col, QueenDirections)

\* moves.some(m => m.row === row && m.col === col)
HasSquare(moves, row, col) ==
    \E k \in 1..Len(moves) : moves[k].row = row /\ moves[k].col = col

RECURSIVE getKingMoves(_, _, _), getRawMoves(_, _, _), AttackScan(_, _, _, _, _)

\* isSquareUnderAttack: the scan of the board from square number i on, which
\* returns at the first enemy piece whose raw moves hold (row, col).
AttackScan(g, row, col, defenderColor, i) ==
    \E j \in i..64 :
        LET sq == SquareAt(j)
            piece == g.board[sq.row][sq.col]
        IN  /\ piece # null
            /\ getPieceColor(piece) # defenderColor
            /\ HasSquare(getRawMoves(g, sq.row, sq.col), row, col)

isSquareUnderAttack(g, row, col, defenderColor) == AttackScan(g, row, col, defenderColor, 1)

\* The two castling branches of getKingMoves: the right, the squares that
\* must be empty, the squares that must not be attacked, the king's target.
CastlingSides ==
    << [side |-> "kingside", empty |-> {5, 6}, safe |-> {4, 5, 6}, target |-> 6],
       [side |-> "queenside", empty |-> {1, 2, 3}, safe |-> {4, 3, 2}, target |-> 2] >>

getKingMoves(g, row, col) ==
    LET color == getPieceColor(g.board[row][col])
    IN  OffsetMoves(g, row, col, KingOffsets) \o
        Flatten([i \in 1..2 |->
            IF /\ g.castlingRights[color][CastlingSides[i].side]
               /\ \A c \in CastlingSides[i].empty : g.board[row][c] = null
               /\ \A c \in CastlingSides[i].safe : ~isSquareUnderAttack(g, row, c, color)
            THEN <<[row |-> row, col |-> CastlingSides[i].target]>> ELSE <<>>])

\* The moves of one piece by its kind (the switch of getValidMovesForPiece).
PieceMoves(g, row, col) ==
    LET pieceType == toLowerCase(g.board[row][col])
    IN  CASE pieceType = "p" -> getPawnMoves(g, row, col)
          [] pieceType = "n" -> getKnightMoves(g, row, col)
          [] pieceType = "b" -> getBishopMoves(g, row, col)
          [] pieceType = "r" -> getRookMoves(g, row, col)
          [] pieceType = "q" -> getQueenMoves(g, row, col)
          [] OTHER -> getKingMoves(g, row, col)

getRawMoves(g, row, col) ==
    IF g.board[row][col] = null THEN <<>>
    ELSE IF toLowerCase(g.board[row][col]) = "k"
         THEN LET near(m) == Abs(m.col - col) <= 1
              IN  SelectSeq(getKingMoves(g, row, col), near)
         ELSE PieceMoves(g, row, col)

\* The king isInCheck finds: its loops leave kingRow/kingCol at the first king
\* of the last row that holds one (break leaves the inner loop only), and
\* undefined (NoTarget here) when the colour has no king.
KingSquares(board, color) ==
    {sq \in Range(AllSquares) :
        board[sq.row][sq.col] # null /\ toLowerCase(board[sq.row][sq.col]) = "k"
        /\ getPieceColor(board[sq.row][sq.col]) = color}

FindKing(board, color) ==
    LET ks == KingSquares(board, color)
    IN  IF ks = {} THEN NoTarget
        ELSE CHOOSE k \in ks :
                 \A o \in ks : o.row < k.row \/ (o.row = k.row /\ o.col >= k.col)

isInCheck(g, color) ==
    LET k == FindKing(g.board, color)
    IN  isSquareUnderAttack(g, k.row, k.col, color)

\* The board after the source's bare two-square move: the piece is put on the
\* destination and the origin is emptied.
RawMove(board, fromRow, fromCol, toRow, toCol) ==
    LET placed == [board EXCEPT ![toRow][toCol] = board[fromRow][fromCol]]
    IN  [placed EXCEPT ![fromRow][fromCol] = null]

wouldBeInCheck(g, fromRow, fromCol, toRow, toCol) ==
    isInCheck([g EXCEPT !.board = RawMove(g.board, fromRow, fromCol, toRow, toCol)],
              getPieceColor(g.board[fromRow][fromCol]))

getValidMovesForPiece(g, row, col) ==
    IF g.board[row][col] = null THEN <<>>
    ELSE LET safe(m) == ~wouldBeInCheck(g, row, col, m.row, m.col)
         IN  SelectSeq(PieceMoves(g, row, col), safe)

\* moves.push({ fromRow: row, fromCol: col, toRow: move.row, toCol: move.col })
MovesFrom(row, col, pieceMoves) ==
    [k \in 1..Len(pieceMoves) |->
        [fromRow |-> row, fromCol |-> col,
         toRow |-> pieceMoves[k].row, toCol |-> pieceMoves[k].col]]

getAllValidMoves(g, color) ==
    Flatten([i \in 1..64 |->
        LET sq == SquareAt(i)
            piece == g.board[sq.row][sq.col]
        IN  IF piece # null /\ getPieceColor(piece) = color
            THEN MovesFrom(sq.row, sq.col, getValidMovesForPiece(g, sq.row, sq.col))
            ELSE <<>>])

(***************************************************************************)
(* The RangeError of the castling probes.  getKingMoves asks                *)
(* isSquareUnderAttack(row, 4, color) as soon as a castling right is held   *)
(* and the squares beside the king are empty; that scan calls getRawMoves   *)
(* on every enemy piece, and for the enemy king getRawMoves calls           *)
(* getKingMoves again before it filters the castling moves out.  When both  *)
(* kings get as far as the probe, and neither scan returns at an earlier    *)
(* piece, the two getKingMoves call each other without end on an unchanged  *)
(* board and the engine throws "Maximum call stack size exceeded".  The     *)
(* move generators above are evaluated only where Throws* is false.         *)
(* Positions hold at most one king of each colour.                          *)
(***************************************************************************)
HoldsRight(g, color) ==
    g.castlingRights[color].kingside \/ g.castlingRights[color].queenside

\* The conditions in front of the first isSquareUnderAttack call of either
\* castling branch of getKingMoves, for the king on (row, col).
CastleProbe(g, row, col) ==
    LET color == getPieceColor(g.board[row][col])
    IN  \/ /\ g.castlingRights[color].kingside
           /\ g.board[row][5] = null /\ g.board[row][6] = null
        \/ /\ g.castlingRights[color].queenside
           /\ g.board[row][1] = null /\ g.board[row][2] = null /\ g.board[row][3] = null

SquareIndex(sq) == sq.row * 8 + sq.col + 1

\* isSquareUnderAttack(row, col, defenderColor) has not returned before it
\* comes to square number i: no enemy piece in front of it moves to (row, col).
ScanReaches(g, row, col, defenderColor, i) ==
    \A j \in 1..(i - 1) :
        LET sq == SquareAt(j)
            piece == g.board[sq.row][sq.col]
        IN  \/ piece = null
            \/ getPieceColor(piece) = defenderColor
            \/ toLowerCase(piece) = "k"
            \/ ~HasSquare(PieceMoves(g, sq.row, sq.col), row, col)

Diverges(g) ==
    /\ HoldsRight(g, "white") /\ HoldsRight(g, "black")
    /\ LET wk == FindKing(g.board, "white")
           bk == FindKing(g.board, "black")
       IN  /\ wk # NoTarget /\ bk # NoTarget
           /\ CastleProbe(g, wk.row, wk.col)
           /\ CastleProbe(g, bk.row, bk.col)
           /\ ScanReaches(g, wk.row, 4, "white", SquareIndex(bk))
           /\ ScanReaches(g, bk.row, 4, "black", SquareIndex(wk))

\* isInCheck(color) throws: its scan comes to the enemy king, whose
\* getKingMoves never returns.
ThrowsIsInCheck(g, color) ==
    /\ Diverges(g)
    /\ LET k == FindKing(g.board, color)
           ek == FindKing(g.board, opponentOf(color))
       IN  ScanReaches(g, k.row, k.col, color, SquareIndex(ek))

\* wouldBeInCheck throws for one of the moves.
ThrowsWouldBeInCheck(g, row, col, moves) ==
    \E k \in 1..Len(moves) :
        ThrowsIsInCheck(
            [g EXCEPT !.board = RawMove(g.board, row, col, moves[k].row, moves[k].col)],
            getPieceColor(g.board[row][col]))

ThrowsValidMovesForPiece(g, row, col) ==
    /\ g.board[row][col] # null
    /\ \/ toLowerCase(g.board[row][col]) = "k" /\ Diverges(g)
       \/ ThrowsWouldBeInCheck(g, row, col, PieceMoves(g, row, col))

ThrowsAllValidMoves(g, color) ==
    /\ HoldsRight(g, "white") /\ HoldsRight(g, "black")
    /\ \E i \in 1..64 :
           LET sq == SquareAt(i)
           IN  /\ g.board[sq.row][sq.col] # null
               /\ getPieceColor(g.board[sq.row][sq.col]) = color
               /\ ThrowsValidMovesForPiece(g, sq.row, sq.col)

(***************************************************************************)
(* Evaluation                                                              *)
(***************************************************************************)
PAWN_TABLE ==
    << 0,  0,  0,  0,  0,  0,  0,  0,
       50, 50, 50, 50, 50, 50, 50, 50,
       10, 10, 20, 30, 30, 20, 10, 10,
       5,  5, 10, 25, 25, 10,  5,  5,
       0,  0,  0, 20, 20,  0,  0,  0,
       5, -5,-10,  0,  0,-10, -5,  5,
       5, 10, 10,-20,-20, 10, 10,  5,
       0,  0,  0,  0,  0,  0,  0,  0 >>

KNIGHT_TABLE ==
    << -50,-40,-30,-30,-30,-30,-40,-50,
       -40,-20,  0,  0,  0,  0,-20,-40,
       -30,  0, 10, 15, 15, 10,  0,-30,
       -30,  5, 15, 20, 20, 15,  5,-30,
       -30,  0, 15, 20, 20, 15,  0,-30,
       -30,  5, 10, 15, 15, 10,  5,-30,
       -40,-20,  0,  5,  5,  0,-20,-40,
       -50,-40,-30,-30,-30,-30,-40,-50 >>

BISHOP_TABLE ==
    << -20,-10,-10,-10,-10,-10,-10,-20,
       -10,  0,  0,  0,  0,  0,  0,-10,
       -10,  0,  5, 10, 10,  5,  0,-10,
       -10,  5,  5, 10, 10,  5,  5,-10,
       -10,  0, 10, 10, 10, 10,  0,-10,
       -10, 10, 10, 10, 10, 10, 10,-10,
       -10,  5,  0,  0,  0,  0,  5,-10,
       -20,-10,-10,-10,-10,-10,-10,-20 >>

KING_TABLE ==
    << -30,-40,-40,-50,-50,-40,-40,-30,
       -30,-40,-40,-50,-50,-40,-40,-30,
       -30,-40,-40,-50,-50,-40,-40,-30,
       -30,-40,-40,-50,-50,-40,-40,-30,
       -20,-30,-30,-40,-40,-30,-30,-20,
       -10,-20,-20,-20,-20,-20,-20,-10,
       20, 20,  0,  0,  0,  0, 20, 20,
       20, 30, 10,  0,  0, 10, 30, 20 >>

getPositionValue(piece, row, col) ==
    LET pieceType == toLowerCase(piece)
        index == IF piece \in WhitePieces THEN (7 - row) * 8 + col ELSE row * 8 + col
    IN  CASE pieceType = "p" -> PAWN_TABLE[index + 1]
          [] pieceType = "n" -> KNIGHT_TABLE[index + 1]
          [] pieceType = "b" -> BISHOP_TABLE[index + 1]
          [] pieceType = "k" -> KING_TABLE[index + 1]
          [] OTHER -> 0

RECURSIVE SumSeq(_)
SumSeq(s) ==
    IF s = <<>> THEN 0
    ELSE IF Len(s) = 1 THEN s[1]
    ELSE LET half == Len(s) \div 2
         IN  SumSeq(SubSeq(s, 1, half)) + SumSeq(SubSeq(s, half + 1, Len(s)))

\* The sum over the squares that hold a piece, in the order of the loops.
SumOverPieces(brd, term(_, _, _)) ==
    SumSeq([i \in 1..64 |->
        LET sq == SquareAt(i)
        IN  IF brd[sq.row][sq.col] = null THEN 0
            ELSE term(brd[sq.row][sq.col], sq.row, sq.col)])

\* quickEval with white taken for the engine.
quickEvalForWhite(g) ==
    LET term(piece, row, col) ==
            IF getPieceColor(piece) = "white"
            THEN PIECE_VALUES(piece) ELSE -PIECE_VALUES(piece)
    IN  SumOverPieces(g.board, term)

quickEval(g) ==
    LET term(piece, row, col) ==
            IF getPieceColor(piece) = g.aiColor
            THEN PIECE_VALUES(piece) ELSE -PIECE_VALUES(piece)
    IN  SumOverPieces(g.board, term)

countPieces(g) ==
    LET one(piece, row, col) == 1 IN SumOverPieces(g.board, one)

\* The temporary currentTurn = opponentColor of the source is left out:
\* getAllValidMoves does not read currentTurn.
evaluateMobility(g, settings) ==
    LET aiMoves == Len(getAllValidMoves(g, g.aiColor))
        opponentMoves == Len(getAllValidMoves(g, opponentOf(g.aiColor)))
    IN  (aiMoves - opponentMoves) * 10 * settings.mobilityWeight

PawnsOf(g, pawn) ==
    {sq \in Range(AllSquares) : g.board[sq.row][sq.col] = pawn}

evaluatePawnStructure(g, settings) ==
    LET whitePawns == PawnsOf(g, "P")
        blackPawns == PawnsOf(g, "p")
        whiteTerm(pawn) ==
            (IF \E p \in whitePawns : p.col = pawn.col /\ p.row < pawn.row THEN -20 ELSE 0)
          + (IF ~\E p \in whitePawns : Abs(p.col - pawn.col) = 1 THEN -15 ELSE 0)
          + (IF ~\E p \in blackPawns : Abs(p.col - pawn.col) <= 1 /\ p.row > pawn.row
             THEN (6 - pawn.row) * 10 ELSE 0)
        blackTerm(pawn) ==
            (IF \E p \in blackPawns : p.col = pawn.col /\ p.row > pawn.row THEN 20 ELSE 0)
          + (IF ~\E p \in blackPawns : Abs(p.col - pawn.col) = 1 THEN 15 ELSE 0)
          + (IF ~\E p \in whitePawns : Abs(p.col - pawn.col) <= 1 /\ p.row < pawn.row
             THEN -((pawn.row - 1) * 10) ELSE 0)
        term(piece, row, col) ==
            IF piece = "P" THEN whiteTerm([row |-> row, col |-> col])
            ELSE IF piece = "p" THEN blackTerm([row |-> row, col |-> col])
            ELSE 0
        score == SumOverPieces(g.board, term)
    IN  (IF g.aiColor = "white" THEN score ELSE -score) * settings.pawnStructureWeight

\* Math.abs(3.5 - row) + Math.abs(3.5 - col), which is a whole number.
CenterDistance(row, col) == (Abs(7 - 2 * row) + Abs(7 - 2 * col)) \div 2

evaluateKingSafety(g, settings) ==
    LET term(piece, row, col) ==
            IF toLowerCase(piece) # "k" THEN 0
            ELSE
            LET pieceColor == getPieceColor(piece)
                multiplier == IF pieceColor = g.aiColor THEN 1 ELSE -1
                direction == IF pieceColor = "white" THEN -1 ELSE 1
                own(r, c) == /\ isValidSquare(r, c)
                             /\ g.board[r][c] # null
                             /\ getPieceColor(g.board[r][c]) = pieceColor
                ownPawn(r, c) == own(r, c) /\ toLowerCase(g.board[r][c]) = "p"
                pawnShield ==
                    20 * Cardinality({dc \in -1..1 : ownPawn(row + direction, col + dc)})
                defenders ==
                    8 * Cardinality({d \in (-1..1) \X (-1..1) :
                            d # <<0, 0>> /\ own(row + d[1], col + d[2])})
                centralization ==
                    IF countPieces(g) <= 12
                    THEN (7 - CenterDistance(row, col)) * 15
                    ELSE CenterDistance(row, col) * 5
                openFilePenalty ==
                    -15 * Cardinality({dc \in -1..1 :
                            /\ col + dc >= 0 /\ col + dc < 8
                            /\ ~\E r \in 0..7 : ownPawn(r, col + dc)})
            IN  (pawnShield + defenders + centralization + openFilePenalty)
                    * multiplier * settings.kingSafetyWeight
    IN  SumOverPieces(g.board, term)

\* An evaluation that adds up the engine's own material only.
evaluateOwnMaterial(g, settings) ==
    LET material(piece, row, col) ==
            IF getPieceColor(piece) = g.aiColor THEN PIECE_VALUES(piece) ELSE 0
    IN  SumOverPieces(g.board, material)

evaluatePosition(g, settings) ==
    LET material(piece, row, col) ==
            PIECE_VALUES(piece) * (IF getPieceColor(piece) = g.aiColor THEN 1 ELSE -1)
        position(piece, row, col) ==
            getPositionValue(piece, row, col) * settings.positionWeight
                * (IF getPieceColor(piece) = g.aiColor THEN 1 ELSE -1)
        materialScore == SumOverPieces(g.board, material)
        positionScore ==
            IF settings.positionWeight > 0 THEN SumOverPieces(g.board, position) ELSE 0
        mobilityScore ==
            IF settings.mobilityWeight > 0 THEN evaluateMobility(g, settings) ELSE 0
        pawnStructureScore ==
            IF settings.pawnStructureWeight > 0 THEN evaluatePawnStructure(g, settings) ELSE 0
        kingSafetyScore ==
            IF settings.kingSafetyWeight > 0 THEN evaluateKingSafety(g, settings) ELSE 0
    IN  materialScore + positionScore + mobilityScore + pawnStructureScore + kingSafetyScore

\* evaluatePosition throws where its mobility term generates moves that throw.
ThrowsEvaluatePosition(g, settings) ==
    /\ settings.mobilityWeight > 0
    /\ ThrowsAllValidMoves(g, g.aiColor) \/ ThrowsAllValidMoves(g, opponentOf(g.aiColor))

(***************************************************************************)
(* Position keys (getFEN).  The string is kept as its four fields, the      *)
(* placement field as the list of its characters.                           *)
(***************************************************************************)
Digits == <<"1", "2", "3", "4", "5", "6", "7", "8">>

\* One row of the placement: the inner loop of getFEN from column col on,
\* with emptyCount empty squares pending.
RECURSIVE FenRow(_, _, _)
FenRow(rowCells, col, emptyCount) ==
    IF col > 7
    THEN IF emptyCount > 0 THEN <<Digits[emptyCount]>> ELSE <<>>
    ELSE IF rowCells[col] # null
         THEN (IF emptyCount > 0 THEN <<Digits[emptyCount]>> ELSE <<>>)
              \o <<rowCells[col]>> \o FenRow(rowCells, col + 1, 0)
         ELSE FenRow(rowCells, col + 1, emptyCount + 1)

FenPlacement(brd) ==
    Flatten([i \in 1..8 |-> FenRow(brd[i - 1], 0, 0) \o (IF i < 8 THEN <<"/">> ELSE <<>>)])

Files == <<"a", "b", "c", "d", "e", "f", "g", "h">>

getFEN(g) ==
    [placement |-> FenPlacement(g.board),
     turn |-> IF g.currentTurn = "white" THEN "w" ELSE "b",
     castling |->
        LET castling ==
                (IF g.castlingRights.white.kingside THEN <<"K">> ELSE <<>>) \o
                (IF g.castlingRights.white.queenside THEN <<"Q">> ELSE <<>>) \o
                (IF g.castlingRights.black.kingside THEN <<"k">> ELSE <<>>) \o
                (IF g.castlingRights.black.queenside THEN <<"q">> ELSE <<>>)
        IN  IF castling = <<>> THEN <<"-">> ELSE castling,
     enPassant |->
        IF g.enPassantTarget # NoTarget
        THEN <<Files[g.enPassantTarget.col + 1], Digits[8 - g.enPassantTarget.row]>>
        ELSE <<"-">>]

\* countRepetitions compares the placement field only (split(' ')[0]).
countRepetitions(g, positionHistory) ==
    Cardinality({i \in 1..Len(positionHistory) :
                    positionHistory[i].placement = getFEN(g).placement})

(***************************************************************************)
(* Move ordering, killer moves, history                                    *)
(***************************************************************************)
\* No move: the source's null bestMove.
NoMove == [fromRow |-> -1, fromCol |-> -1, toRow |-> -1, toCol |-> -1]

KILLER_PLIES == 20

NoKillers == [d \in 0..(KILLER_PLIES - 1) |-> <<>>]

HistoryOf(historyTable, move) ==
    IF move \in DOMAIN historyTable THEN historyTable[move] ELSE 0

\* The score orderMoves gives one move.
OrderScore(g, killerMoves, historyTable, move, bestMove, depth) ==
    LET targetPiece == g.board[move.toRow][move.toCol]
        movingPiece == g.board[move.fromRow][move.fromCol]
        killers == killerMoves[depth]
    IN  (IF bestMove # NoMove /\ move = bestMove THEN 100000 ELSE 0)
      + (IF targetPiece # null
         THEN 10000 + (PIECE_VALUES(targetPiece) * 10 - PIECE_VALUES(movingPiece)) ELSE 0)
      + (IF toLowerCase(movingPiece) = "p" /\ (move.toRow = 0 \/ move.toRow = 7)
         THEN 9000 ELSE 0)
      + (IF targetPiece = null /\ depth < KILLER_PLIES
         THEN SumSeq([i \in 1..Len(killers) |->
                        IF killers[i] = move THEN 8000 - (i - 1) * 1000 ELSE 0])
         ELSE 0)
      + HistoryOf(historyTable, move)
      + (7 - CenterDistance(move.toRow, move.toCol)) * 10
      + (IF toLowerCase(movingPiece) \in {"n", "b"} /\
            move.fromRow = (IF movingPiece \in WhitePieces THEN 7 ELSE 0)
         THEN 50 ELSE 0)

\* Array.prototype.sort with (a, b) => b.score - a.score: descending, and
\* stable, so equal scores keep their order.
SortDescending(items, score) ==
    LET n == Len(items)
        rank(i) == Cardinality({j \in 1..n : score[j] > score[i]})
                 + Cardinality({j \in 1..(i - 1) : score[j] = score[i]}) + 1
    IN  [k \in 1..n |-> items[CHOOSE i \in 1..n : rank(i) = k]]

orderMoves(g, killerMoves, historyTable, moves, bestMove, depth) ==
    SortDescending(moves,
        [i \in 1..Len(moves) |->
            OrderScore(g, killerMoves, historyTable, moves[i], bestMove, depth)])

storeKillerMove(killerMoves, move, depth) ==
    IF depth >= KILLER_PLIES THEN killerMoves
    ELSE IF \E i \in 1..Len(killerMoves[depth]) : killerMoves[depth][i] = move
         THEN killerMoves
         ELSE LET added == <<move>> \o killerMoves[depth]
              IN  [killerMoves EXCEPT ![depth] =
                      IF Len(added) > 2 THEN SubSeq(added, 1, Len(added) - 1) ELSE added]

updateHistory(historyTable, move, depth) ==
    (move :> (HistoryOf(historyTable, move) + depth * depth)) @@ historyTable

(***************************************************************************)
(* Move selection (maybeBlunder, selectMoveWithSoftmax).  Math.random() is  *)
(* a free choice: the operators give the set of moves a call can return.    *)
(* settings.mistakeRate is in percent.                                      *)
(***************************************************************************)
\* allMoveScores.sort((a, b) => b.score - a.score)
SortMoveScores(moveScores) ==
    SortDescending(moveScores, [i \in 1..Len(moveScores) |-> moveScores[i].score])

\* maybeBlunder with the fallback index rounded the other way: for two moves
\* the fallback is the top move.
maybeBlunderLowerMiddle(moveScores, settings) ==
    LET bestScore == moveScores[1].score
        targetScore == bestScore - settings.mistakeSizeCp
        isCandidate(m) == Abs(m.score - targetScore) < 50 /\ m.score < bestScore - 50
        blunderCandidates == SelectSeq(moveScores, isCandidate)
        worseIndex == Min((Len(moveScores) - 1) \div 2, Len(moveScores) - 1)
        blunder ==
            IF Len(blunderCandidates) > 0
            THEN {blunderCandidates[i].move : i \in 1..Len(blunderCandidates)}
            ELSE IF Len(moveScores) > 1
                 THEN {moveScores[worseIndex + 1].move}
                 ELSE {NoMove}
    IN  (IF settings.mistakeRate < 100 THEN {NoMove} ELSE {}) \cup
        (IF settings.mistakeRate > 0 THEN blunder ELSE {})

\* The moves maybeBlunder can return, NoMove for its null.
maybeBlunder(moveScores, settings) ==
    LET bestScore == moveScores[1].score
        targetScore == bestScore - settings.mistakeSizeCp
        isCandidate(m) == Abs(m.score - targetScore) < 50 /\ m.score < bestScore - 50
        blunderCandidates == SelectSeq(moveScores, isCandidate)
        worseIndex == Min(Len(moveScores) \div 2, Len(moveScores) - 1)
        blunder ==
            IF Len(blunderCandidates) > 0
            THEN {blunderCandidates[i].move : i \in 1..Len(blunderCandidates)}
            ELSE IF Len(moveScores) > 1
                 THEN {moveScores[worseIndex + 1].move}
                 ELSE {NoMove}
    IN  (IF settings.mistakeRate < 100 THEN {NoMove} ELSE {}) \cup
        (IF settings.mistakeRate > 0 THEN blunder ELSE {})

\* selectMoveWithSoftmax sampling the whole ranked list, the window filter
\* left out.
selectMoveUnfiltered(moveScores, settings) ==
    {moveScores[i].move : i \in 1..Len(moveScores)}

\* The moves selectMoveWithSoftmax can return: any move of the window.
selectMoveWithSoftmax(moveScores, settings) ==
    LET bestScore == moveScores[1].score
        windowSize == IF settings.softmaxWindow # 0 THEN settings.softmaxWindow ELSE 50
        inWindow(m) == m.score >= bestScore - windowSize
        topMoves == SelectSeq(moveScores, inWindow)
    IN  IF Len(topMoves) = 1 THEN {topMoves[1].move}
        ELSE {topMoves[i].move : i \in 1..Len(topMoves)}

(***************************************************************************)
(* The game's move application (ChessGame.makeMove), on the fields of the   *)
(* game that make up a position.                                            *)
(***************************************************************************)
makeMove(game, fromRow, fromCol, toRow, toCol) ==
    LET piece == game.board[fromRow][fromCol]
        turn == game.currentTurn
        isEnPassant == /\ game.enPassantTarget # NoTarget
                       /\ toRow = game.enPassantTarget.row
                       /\ toCol = game.enPassantTarget.col
                       /\ toLowerCase(piece) = "p"
        capturedRow == IF turn = "white" THEN toRow + 1 ELSE toRow - 1
        b1 == IF isEnPassant
              THEN [game.board EXCEPT ![capturedRow][toCol] = null]
              ELSE game.board
        isCastling == toLowerCase(piece) = "k" /\ Abs(toCol - fromCol) = 2
        rookFromCol == IF toCol > fromCol THEN 7 ELSE 0
        rookToCol == IF toCol > fromCol THEN toCol - 1 ELSE toCol + 1
        b2 == IF isCastling
              THEN [[b1 EXCEPT ![toRow][rookToCol] = b1[toRow][rookFromCol]]
                        EXCEPT ![toRow][rookFromCol] = null]
              ELSE b1
        b3 == [[b2 EXCEPT ![toRow][toCol] = piece] EXCEPT ![fromRow][fromCol] = null]
        b4 == IF toLowerCase(piece) = "p" /\ (toRow = 0 \/ toRow = 7)
              THEN [b3 EXCEPT ![toRow][toCol] = IF turn = "white" THEN "Q" ELSE "q"]
              ELSE b3
        rights == game.castlingRights[turn]
        r1 == IF toLowerCase(piece) = "k"
              THEN [kingside |-> FALSE, queenside |-> FALSE]
              ELSE rights
        r2 == IF toLowerCase(piece) = "r"
              THEN [kingside |-> IF fromCol = 7 THEN FALSE ELSE r1.kingside,
                    queenside |-> IF fromCol = 0 THEN FALSE ELSE r1.queenside]
              ELSE r1
    IN  [game EXCEPT
            !.board = b4,
            !.castlingRights = [game.castlingRights EXCEPT ![turn] = r2],
            !.enPassantTarget =
                IF toLowerCase(piece) = "p" /\ Abs(toRow - fromRow) = 2
                THEN [row |-> IF turn = "white" THEN fromRow - 1 ELSE fromRow + 1,
                      col |-> fromCol]
                ELSE NoTarget,
            !.currentTurn = opponentOf(turn)]

(***************************************************************************)
(* The search's move application: alphaBetaSearch, quiescenceSearch and     *)
(* getBestMove put the piece on the destination and empty the origin, and   *)
(* put both squares back afterwards.                                        *)
(***************************************************************************)
MakeSearchMove(brd, move) ==
    RawMove(brd, move.fromRow, move.fromCol, move.toRow, move.toCol)

\* An unmake that leaves the destination square empty.
UnmakeWithoutCaptured(brd, move, piece, captured) ==
    [[brd EXCEPT ![move.fromRow][move.fromCol] = piece]
          EXCEPT ![move.toRow][move.toCol] = null]

UnmakeSearchMove(brd, move, piece, captured) ==
    [[brd EXCEPT ![move.fromRow][move.fromCol] = piece]
          EXCEPT ![move.toRow][move.toCol] = captured]

(***************************************************************************)
(* The search requests the main thread posts: sparse positions, and         *)
(* settings as getAISettings builds them with the weights and limits        *)
(* varied.                                                                  *)
(***************************************************************************)
RECURSIVE BoardOf(_)
\* The board holding the pieces of a list of <<row, col, piece>>.
BoardOf(pieces) ==
    IF pieces = <<>> THEN EmptyBoard
    ELSE LET p == Head(pieces)
         IN  [BoardOf(Tail(pieces)) EXCEPT ![p[1]][p[2]] = p[3]]

Position(pieces, color, rights, target) ==
    [board |-> BoardOf(pieces), aiColor |-> color, currentTurn |-> color,
     castlingRights |-> rights, enPassantTarget |-> target, positionHistory |-> <<>>]

KingsideOnly == [white |-> [kingside |-> TRUE, queenside |-> FALSE],
                 black |-> [kingside |-> TRUE, queenside |-> FALSE]]

\* White's pawn b3 can take the undefended queen on c4.
QueenHangs ==
    Position(<< <<7, 0, "K">>, <<5, 1, "P">>, <<4, 2, "q">>, <<0, 7, "k">> >>,
             "white", NoCastling, NoTarget)
\* Black is checkmated: Ka8 against Qb7 and Kc6.
Checkmated ==
    Position(<< <<0, 0, "k">>, <<1, 1, "Q">>, <<2, 2, "K">> >>,
             "black", NoCastling, NoTarget)
\* Black is stalemated: Ka8 against Qc7.
Stalemated ==
    Position(<< <<0, 0, "k">>, <<1, 2, "Q">>, <<7, 7, "K">> >>,
             "black", NoCastling, NoTarget)
\* Both sides may still castle kingside, nothing between king and rook.
BothCastle ==
    Position(<< <<7, 4, "K">>, <<7, 7, "R">>, <<0, 4, "k">>, <<0, 7, "r">> >>,
             "white", KingsideOnly, NoTarget)
\* Black has just played d7-d5 past white's pawn e5; black's pawn e7 is home.
EnPassant ==
    Position(<< <<7, 0, "K">>, <<3, 4, "P">>, <<3, 3, "p">>, <<1, 4, "p">>,
                <<0, 7, "k">> >>,
             "white", NoCastling, [row |-> 2, col |-> 3])
\* King and pawn against king.
PawnEnding ==
    Position(<< <<7, 0, "K">>, <<6, 0, "P">>, <<0, 7, "k">> >>,
             "white", NoCastling, NoTarget)
\* White's pawn g7 promotes, or takes the rook h8 and promotes.
Promotes ==
    Position(<< <<7, 0, "K">>, <<1, 6, "P">>, <<0, 7, "r">>, <<0, 0, "k">> >>,
             "white", NoCastling, NoTarget)

\* Two white pawns on their home squares against a pawn.
TwoPawns ==
    Position(<< <<7, 0, "K">>, <<6, 0, "P">>, <<6, 3, "P">>, <<0, 7, "k">>,
                <<1, 6, "p">> >>,
             "white", NoCastling, NoTarget)

\* Black has just played c7-c5 beside white's pawn b5; taking en passant
\* would clear the fifth rank between black's rook h5 and white's king a5.
PinnedEnPassant ==
    Position(<< <<3, 0, "K">>, <<3, 1, "P">>, <<3, 2, "p">>, <<3, 7, "r">>,
                <<0, 7, "k">> >>,
             "white", NoCastling, [row |-> 2, col |-> 2])

\* White may castle kingside; black's pawn e2 attacks f1.
CastleThroughPawn ==
    Position(<< <<7, 4, "K">>, <<7, 7, "R">>, <<6, 4, "p">>, <<0, 4, "k">> >>,
             "white",
             [white |-> [kingside |-> TRUE, queenside |-> FALSE],
              black |-> [kingside |-> FALSE, queenside |-> FALSE]],
             NoTarget)

\* The fields of a game after ChessGame.makeMove has played the moves
\* <<fromRow, fromCol, toRow, toCol>> in turn: makeMove pushes the key of
\* the new position on positionHistory before it switches the turn.
RECURSIVE PlayedGame(_, _)
PlayedGame(game, moves) ==
    IF moves = <<>> THEN game
    ELSE LET m == Head(moves)
             after == makeMove(game, m[1], m[2], m[3], m[4])
             key == getFEN([after EXCEPT !.currentTurn = game.currentTurn])
         IN  PlayedGame([after EXCEPT !.positionHistory =
                                         Append(game.positionHistory, key)],
                        Tail(moves))

\* The kings have shuffled: Ka1 and kg8 with black to move has occurred
\* twice, and it is black's move with the king back on h8.
KingsShuffle ==
    PlayedGame([Position(<< <<7, 1, "K">>, <<6, 0, "P">>, <<0, 6, "k">> >>,
                         "black", NoCastling, NoTarget)
                    EXCEPT !.currentTurn = "white"],
               << <<7, 1, 7, 0>>, <<0, 6, 0, 7>>, <<7, 0, 7, 1>>, <<0, 7, 0, 6>>,
                  <<7, 1, 7, 0>>, <<0, 6, 0, 7>>, <<7, 0, 7, 1>>, <<0, 7, 1, 7>>,
                  <<7, 1, 6, 1>>, <<1, 7, 0, 7>>, <<6, 1, 7, 0>> >>)

\* White's only legal move is Ka1-a2: b1 and b2 are next to the black king.
LoneMove ==
    Position(<< <<7, 0, "K">>, <<6, 2, "k">> >>, "white", NoCastling, NoTarget)

\* White has two legal moves, Ka1-a2 and Ka1-b1: b2 is next to the black king.
TwoMoves ==
    Position(<< <<7, 0, "K">>, <<5, 2, "k">> >>, "white", NoCastling, NoTarget)

MaxTime == 2
MaxNodes == 3
FewNodes == 6
MaxGames == 2
ManyNodes == 1000

Material(depth, time, nodes, quiescence) ==
    [searchDepth |-> depth, timePerMove |-> time, maxNodes |-> nodes,
     useQuiescence |-> quiescence, mistakeRate |-> 0, mistakeSizeCp |-> 0,
     softmaxWindow |-> 0, positionWeight |-> 0, mobilityWeight |-> 0,
     pawnStructureWeight |-> 0, kingSafetyWeight |-> 0]

Request(position, settings) ==
    [type |-> "search", board |-> position.board, aiColor |-> position.aiColor,
     currentTurn |-> position.currentTurn, castlingRights |-> position.castlingRights,
     enPassantTarget |-> position.enPassantTarget,
     positionHistory |-> position.positionHistory, settings |-> settings]

Requests ==
    {Request(QueenHangs, Material(1, MaxTime, ManyNodes, FALSE)),
     Request(QueenHangs, Material(2, MaxTime, ManyNodes, TRUE)),
     Request(QueenHangs, Material(1, 0, ManyNodes, FALSE)),
     Request(QueenHangs, Material(0, MaxTime, ManyNodes, FALSE)),
     Request(Checkmated, Material(1, MaxTime, ManyNodes, FALSE)),
     Request(Stalemated, Material(1, MaxTime, ManyNodes, FALSE)),
     Request(BothCastle, Material(1, MaxTime, ManyNodes, FALSE)),
     Request(EnPassant, Material(1, MaxTime, ManyNodes, FALSE)),
     Request(Promotes, Material(1, MaxTime, ManyNodes, FALSE)),
     Request(PawnEnding, Material(1, MaxTime, MaxNodes, FALSE)),
     Request(PawnEnding, Material(2, MaxTime, ManyNodes, FALSE)),
     Request(KingsShuffle, Material(1, MaxTime, ManyNodes, FALSE)),
     Request(CastleThroughPawn, Material(1, MaxTime, ManyNodes, FALSE)),
     Request(PinnedEnPassant, Material(0, MaxTime, ManyNodes, FALSE)),
     Request(PawnEnding, [Material(2, MaxTime, FewNodes, FALSE) EXCEPT
                              !.positionWeight = 1]),
     Request(TwoPawns, [Material(3, MaxTime, ManyNodes, FALSE) EXCEPT
                            !.positionWeight = 1]),
     Request(PawnEnding,
        [Material(2, MaxTime, ManyNodes, TRUE) EXCEPT
            !.mistakeRate = 50, !.mistakeSizeCp = 100, !.positionWeight = 1,
            !.mobilityWeight = 1, !.pawnStructureWeight = 1, !.kingSafetyWeight = 1])}

(***************************************************************************)
(* State.  The worker's globals, the locals of the running handler          *)
(* (settings, deadline, the frame of getBestMove in root and the frames of  *)
(* alphaBetaSearch and quiescenceSearch in stack), the two message queues,  *)
(* the main thread's request bookkeeping and the clock.                     *)
(***************************************************************************)
VARIABLES
    board, aiColor, currentTurn, castlingRights, enPassantTarget,
    positionHistory, transpositionTable, killerMoves, historyTable,
    ttStoredBy,     \* per key of the table: isMaximizing and settings of the
                    \* call that stored it
    ttOthers,       \* number of entries of the table for positions of earlier
                    \* games, which no search of a request here looks up
    nodesSearched, forceTimeout,
    settings, deadline, startTime,
    selection,      \* the ranked list getBestMove last gave maybeBlunder, and its
                    \* answer
    root, stack, ret,
    inbox,          \* messages posted to the worker, not yet handled
    outbox,         \* messages and error events the worker has produced
    aiStartTime,    \* ChessGame.aiStartTime, -1 before the first request
    hardTimeoutId,  \* the instant the armed hard timeout fires, -1 if none
    posted,         \* the search requests the main thread has posted
    chessGame,      \* the ChessGame object of the page
    now,            \* Date.now()
    poll,           \* outcome of the timeout poll the last step made
    tripped,        \* a poll tripped since the current depth began
    stopInSearch    \* a stop was posted while the search handler ran

vars == <<board, aiColor, currentTurn, castlingRights, enPassantTarget,
          positionHistory, transpositionTable, killerMoves, historyTable,
          ttStoredBy, ttOthers, nodesSearched, forceTimeout, settings, deadline, startTime, selection,
          root,
          stack, ret, inbox, outbox, aiStartTime, hardTimeoutId, posted, chessGame,
          now,
          poll, tripped, stopInSearch>>

globals == <<board, aiColor, currentTurn, castlingRights, enPassantTarget,
             positionHistory>>
tables == <<transpositionTable, killerMoves, historyTable, ttStoredBy, ttOthers>>
handler == <<settings, deadline, startTime, selection>>
mainThread == <<aiStartTime, hardTimeoutId, posted, chessGame>>

\* The position the worker's functions read.
G == [board |-> board, aiColor |-> aiColor, currentTurn |-> currentTurn,
      castlingRights |-> castlingRights, enPassantTarget |-> enPassantTarget]

EmptyMap == [k \in {} |-> 0]

\* transpositionTable.size
TableSize == Cardinality(DOMAIN transpositionTable) + ttOthers

HARD_TIMEOUT_GRACE == 500
NEW_GAME_DELAY == 500
TT_LIMIT == 100000

(***************************************************************************)
(* The page's game object                                                   *)
(***************************************************************************)
\* createInitialBoard
InitialBoard ==
    LET back == <<"r", "n", "b", "q", "k", "b", "n", "r">>
        BACK == <<"R", "N", "B", "Q", "K", "B", "N", "R">>
    IN  [r \in 0..7 |-> [c \in 0..7 |->
            CASE r = 0 -> back[c + 1]
              [] r = 1 -> "p"
              [] r = 6 -> "P"
              [] r = 7 -> BACK[c + 1]
              [] OTHER -> null]]

\* The fields of a game that undoMove is to bring back.
GameFields(game) ==
    [board |-> game.board, currentTurn |-> game.currentTurn,
     castlingRights |-> game.castlingRights, enPassantTarget |-> game.enPassantTarget,
     capturedPieces |-> game.capturedPieces, moveHistory |-> game.moveHistory,
     positionHistory |-> game.positionHistory]

\* ProgressTracker.constructor with nothing saved: progress.totalXP and
\* progress.level.
NewProgressTracker == [totalXP |-> 0, level |-> 1]

\* LessonEngine.currentLesson = null
NoLesson ==
    [id |-> 0, board |-> EmptyBoard, playerColor |-> "white", solution |-> NoMove,
     points |-> 0]

\* The fields the constructor sets.  selectedSquare is NoTarget when no
\* square is selected.  workerCallback is whether a callback
\* is installed, aiWorker whether the worker is still referenced, timers the
\* number of pending setTimeout(makeAIMove), and delivered the number of
\* worker messages and error events the main thread has handled.
\* beforePlayerMove is a history field: the fields of the game at the
\* player's last move, before it was made.
NewChessGame ==
    LET game == [board |-> InitialBoard, currentTurn |-> "white", moveHistory |-> <<>>,
                 capturedPieces |-> [white |-> <<>>, black |-> <<>>],
                 playerColor |-> "white", aiColor |-> "black", gameOver |-> FALSE,
                 enPassantTarget |-> NoTarget, aiElo |-> 1000,
                 castlingRights |-> AllCastling, positionHistory |-> <<>>,
                 workerCallback |-> FALSE, aiWorker |-> TRUE, timers |-> 0,
                 delivered |-> 0, selectedSquare |-> NoTarget, validMoves |-> <<>>,
                 lessonMode |-> FALSE, progressTracker |-> NewProgressTracker,
                 lessonEngine |-> [currentLesson |-> NoLesson]]
    IN  [field \in DOMAIN game \cup {"beforePlayerMove"} |->
            IF field = "beforePlayerMove" THEN GameFields(game) ELSE game[field]]

\* Math.round of the positive fraction numerator / denominator.
Round(numerator, denominator) == (2 * numerator + denominator) \div (2 * denominator)

\* getAISettings reading the rating as it is set, without the clamp.
getAISettingsUnclamped(aiElo) ==
    LET e == aiElo - 500
    IN  [searchDepth |-> IF aiElo <= 500 THEN 0 ELSE Round(1700 + 5 * e, 1700),
         mistakeRate |-> 153000 - 88 * e,
         mistakeSizeCp |-> Round(350 * 1700 - 250 * e, 1700),
         timePerMove |-> Round(300 * 1700 + 4700 * e, 1700),
         maxNodes |-> Round(50000 * 1700 + 450000 * e, 1700),
         positionWeight |-> 15 * e,
         mobilityWeight |-> 10 * e,
         pawnStructureWeight |-> 10 * e,
         kingSafetyWeight |-> 12 * e,
         temperature |-> 20400 - 9 * e,
         softmaxWindow |-> Round(80 * 1700 - 50 * e, 1700),
         useQuiescence |-> aiElo >= 1200]

\* ChessGame.getAISettings.  lerp(500, 2200, a, b) is a + (elo - 500) * (b - a)
\* / 1700; the fields that are not rounded are kept as exact fractions:
\* mistakeRate in 1/170000, the four weights and temperature in 1/17000.
getAISettings(aiElo) ==
    LET elo == Max(500, Min(2200, aiElo))
        e == elo - 500
    IN  [searchDepth |-> IF elo <= 500 THEN 0 ELSE Round(1700 + 5 * e, 1700),
         mistakeRate |-> 153000 - 88 * e,
         mistakeSizeCp |-> Round(350 * 1700 - 250 * e, 1700),
         timePerMove |-> Round(300 * 1700 + 4700 * e, 1700),
         maxNodes |-> Round(50000 * 1700 + 450000 * e, 1700),
         positionWeight |-> 15 * e,
         mobilityWeight |-> 10 * e,
         pawnStructureWeight |-> 10 * e,
         kingSafetyWeight |-> 12 * e,
         temperature |-> 20400 - 9 * e,
         softmaxWindow |-> Round(80 * 1700 - 50 * e, 1700),
         useQuiescence |-> elo >= 1200]

\* Before getBestMove has reached maybeBlunder.
NoSelection == [moveScores |-> <<>>, blunderMove |-> NoMove]

IdleRoot ==
    [pc |-> "idle", moves |-> <<>>, bestMove |-> NoMove, bestScore |-> -Infinity,
     completedDepth |-> 0, allMoveScores |-> <<>>, depth |-> 0,
     orderedMoves |-> <<>>, idx |-> 0, depthBestMove |-> NoMove,
     depthBestScore |-> -Infinity, depthMoveScores |-> <<>>,
     piece |-> null, captured |-> null,
     entry |-> [board |-> EmptyBoard, castlingRights |-> NoCastling,
                enPassantTarget |-> NoTarget]]

Init ==
    /\ board = EmptyBoard
    /\ aiColor = null
    /\ currentTurn = null
    /\ castlingRights = NoCastling
    /\ enPassantTarget = NoTarget
    /\ positionHistory = <<>>
    /\ transpositionTable = EmptyMap
    /\ killerMoves = NoKillers
    /\ historyTable = EmptyMap
    /\ ttStoredBy = EmptyMap
    /\ ttOthers = 0
    /\ nodesSearched = 0
    /\ forceTimeout = FALSE
    /\ settings = Material(0, 0, 0, FALSE)
    /\ deadline = 0
    /\ startTime = 0
    /\ selection = NoSelection
    /\ root = IdleRoot
    /\ stack = <<>>
    /\ ret = 0
    /\ inbox = <<>>
    /\ outbox = <<>>
    /\ aiStartTime = -1
    /\ hardTimeoutId = -1
    /\ posted = <<>>
    /\ chessGame = NewChessGame
    /\ now = 0
    /\ poll = "none"
    /\ tripped = FALSE
    /\ stopInSearch = FALSE

Searching == root.pc # "idle"

(***************************************************************************)
(* Main thread                                                              *)
(***************************************************************************)
\* ChessGame.makeAIMove: arm the hard timeout and post the search request.
makeAIMove(request) ==
    /\ aiStartTime = -1
    /\ aiStartTime' = now
    /\ hardTimeoutId' = now + request.settings.timePerMove + HARD_TIMEOUT_GRACE
    /\ inbox' = Append(inbox, request)
    /\ posted' = Append(posted, request)
    /\ poll' = "none"
    /\ UNCHANGED <<chessGame, globals, tables, handler, nodesSearched, forceTimeout, root,
                   stack, ret, outbox, now, tripped, stopInSearch>>

\* The hard timeout fires: post stop to the worker.
HardTimeout ==
    /\ hardTimeoutId # -1
    /\ now >= hardTimeoutId
    /\ hardTimeoutId' = -1
    /\ inbox' = Append(inbox, [type |-> "stop"])
    /\ stopInSearch' = (stopInSearch \/ Searching)
    /\ poll' = "none"
    /\ UNCHANGED <<chessGame, globals, tables, handler, nodesSearched, forceTimeout, root,
                   stack, ret, outbox, aiStartTime, posted, now, tripped>>

\* workerCallback on the final message, or handleWorkerError on an error
\* event: the hard timeout is cleared.
WorkerReplied ==
    /\ hardTimeoutId # -1
    /\ \E i \in 1..Len(outbox) : outbox[i].type \in {"move", "error"}
    /\ hardTimeoutId' = -1
    /\ poll' = "none"
    /\ UNCHANGED <<chessGame, globals, tables, handler, nodesSearched, forceTimeout, root,
                   stack, ret, inbox, outbox, aiStartTime, posted, now, tripped,
                   stopInSearch>>

\* ChessGame.newGame when the engine has the first move: the game is back at
\* the position it began with, and after the delay makeAIMove posts that
\* position again.  The game before has had its answer.
newGame ==
    /\ posted # <<>> /\ Len(posted) < MaxGames
    /\ posted[1].aiColor = "white"
    /\ hardTimeoutId = -1 /\ inbox = <<>> /\ ~Searching
    /\ now' = now + NEW_GAME_DELAY
    /\ aiStartTime' = now'
    /\ hardTimeoutId' = now' + posted[1].settings.timePerMove + HARD_TIMEOUT_GRACE
    /\ inbox' = Append(inbox, posted[1])
    /\ posted' = Append(posted, posted[1])
    /\ poll' = "none"
    /\ UNCHANGED <<chessGame, globals, tables, handler, nodesSearched, forceTimeout, root,
                   stack, ret, outbox, tripped, stopInSearch>>

(***************************************************************************)
(* Main thread: the game                                                    *)
(***************************************************************************)
workerSide == <<globals, tables, handler, nodesSearched, forceTimeout, root,
                stack, ret, tripped, stopInSearch>>

MaxSearches == 7

\* checkGameOver: hasAnyValidMoves and isInCheck for the side to move.
checkGameOver(game) ==
    IF \/ ThrowsAllValidMoves(game, game.currentTurn)
       \/ ThrowsIsInCheck(game, game.currentTurn)
    THEN "throws"
    ELSE IF getAllValidMoves(game, game.currentTurn) = <<>> THEN "over"
    ELSE "playing"

\* ChessGame.makeMove with its bookkeeping, as the set of its one outcome.
\* getMoveNotation throws on an empty origin square before anything is
\* assigned; an exception of checkGameOver leaves the move made and gameOver
\* as it was.
PlayMove(game, fromRow, fromCol, toRow, toCol) ==
    LET piece == game.board[fromRow][fromCol]
        capturedPiece == game.board[toRow][toCol]
        isEnPassant == /\ game.enPassantTarget # NoTarget
                       /\ toRow = game.enPassantTarget.row
                       /\ toCol = game.enPassantTarget.col
                       /\ toLowerCase(piece) = "p"
        capturedRow == IF game.currentTurn = "white" THEN toRow + 1 ELSE toRow - 1
        capturedPawn == IF isEnPassant THEN game.board[capturedRow][toCol] ELSE null
        push(captured, taken) ==
            IF taken = null THEN captured
            ELSE [captured EXCEPT ![opponentOf(getPieceColor(taken))] = Append(@, taken)]
        moved == makeMove(game, fromRow, fromCol, toRow, toCol)
        recorded ==
            [moved EXCEPT
                !.capturedPieces = push(push(@, capturedPawn), capturedPiece),
                !.moveHistory =
                    Append(@, [piece |-> piece, fromRow |-> fromRow, fromCol |-> fromCol,
                               toRow |-> toRow, toCol |-> toCol,
                               capturedPiece |-> capturedPiece, board |-> moved.board]),
                !.positionHistory =
                    Append(@, getFEN([moved EXCEPT !.currentTurn = game.currentTurn]))]
        checked(made, outcome) ==
            [game |-> [made EXCEPT !.gameOver = (@ \/ outcome = "over")],
             threw |-> outcome = "throws"]
    IN  IF piece = null THEN {[game |-> game, threw |-> TRUE]}
        ELSE UNION {{checked(made, outcome) : outcome \in {checkGameOver(made)}} :
                        made \in {recorded}}

\* handleSquareClick on a piece of the player and then on one of the squares
\* offered for it: the two clicks with nothing between them, which leave no
\* square selected.
handleSquareClick(fromRow, fromCol, toRow, toCol) ==
    /\ chessGame.timers + Len(posted) < MaxSearches
    /\ ~chessGame.gameOver
    /\ ~chessGame.lessonMode
    /\ chessGame.currentTurn = chessGame.playerColor
    /\ chessGame.board[fromRow][fromCol] # null
    /\ getPieceColor(chessGame.board[fromRow][fromCol]) = chessGame.currentTurn
    /\ ~ThrowsValidMovesForPiece(chessGame, fromRow, fromCol)
    /\ [row |-> toRow, col |-> toCol]
            \in Range(getValidMovesForPiece(chessGame, fromRow, fromCol))
    /\ \E played \in PlayMove(chessGame, fromRow, fromCol, toRow, toCol) :
          chessGame' =
            IF /\ ~played.threw /\ ~played.game.gameOver
               /\ played.game.currentTurn = played.game.aiColor
            THEN [played.game EXCEPT !.timers = @ + 1,
                                     !.beforePlayerMove = GameFields(chessGame)]
            ELSE [played.game EXCEPT !.beforePlayerMove = GameFields(chessGame)]
    /\ poll' = "none"
    /\ UNCHANGED <<workerSide, inbox, outbox, aiStartTime, hardTimeoutId, posted, now>>

\* The timeout set by handleSquareClick fires: makeAIMove posts the position
\* of the game as it is then.
TimerMakeAIMove ==
    /\ chessGame.timers > 0
    /\ Len(posted) < MaxSearches
    /\ LET returns == chessGame.gameOver \/ ~chessGame.aiWorker
           request == Request(chessGame, getAISettings(chessGame.aiElo))
       IN  /\ chessGame' = [chessGame EXCEPT !.timers = @ - 1,
                                             !.workerCallback = (@ \/ ~returns)]
           /\ aiStartTime' = IF returns THEN aiStartTime ELSE now
           /\ hardTimeoutId' =
                IF returns THEN hardTimeoutId
                ELSE now + request.settings.timePerMove + HARD_TIMEOUT_GRACE
           /\ inbox' = IF returns THEN inbox ELSE Append(inbox, request)
           /\ posted' = IF returns THEN posted ELSE Append(posted, request)
    /\ poll' = "none"
    /\ UNCHANGED <<workerSide, outbox, now>>

\* handleWorkerMessage, or the onerror handler, on the next message or error
\* event of the worker.  The callback plays result.move and is cleared.
handleWorkerMessage ==
    /\ chessGame.delivered < Len(outbox)
    /\ LET data == outbox[chessGame.delivered + 1]
           calls == chessGame.workerCallback /\ data.type \in {"move", "error"}
           plays == calls /\ data.type = "move" /\ data.move # NoMove
           handled == [chessGame EXCEPT
                          !.delivered = @ + 1,
                          !.aiWorker = (@ /\ data.type # "error"),
                          !.workerCallback = (@ /\ ~calls)]
       IN  /\ \E played \in (IF plays
                             THEN PlayMove(handled, data.move.fromRow, data.move.fromCol,
                                           data.move.toRow, data.move.toCol)
                             ELSE {[game |-> handled, threw |-> FALSE]}) :
                chessGame' = played.game
           /\ hardTimeoutId' = IF calls THEN -1 ELSE hardTimeoutId
    /\ poll' = "none"
    /\ UNCHANGED <<workerSide, inbox, outbox, aiStartTime, posted, now>>

\* ChessGame.newGame with the player on white: no timeout is set.
NewGameClicked ==
    /\ chessGame.playerColor = "white"
    /\ chessGame' = [chessGame EXCEPT
                        !.board = InitialBoard, !.currentTurn = "white",
                        !.moveHistory = <<>>,
                        !.capturedPieces = [white |-> <<>>, black |-> <<>>],
                        !.gameOver = FALSE, !.enPassantTarget = NoTarget,
                        !.castlingRights = AllCastling, !.positionHistory = <<>>,
                        !.selectedSquare = NoTarget, !.validMoves = <<>>]
    /\ poll' = "none"
    /\ UNCHANGED <<workerSide, inbox, outbox, aiStartTime, hardTimeoutId, posted, now>>

\* ChessGame.undoMove
undoMove ==
    /\ chessGame.moveHistory # <<>>
    /\ LET once == Front(chessGame.moveHistory)
           twice == once # <<>> /\ chessGame.currentTurn = chessGame.playerColor
           remaining == IF twice THEN Front(once) ELSE once
           keys == IF chessGame.positionHistory # <<>>
                   THEN Front(chessGame.positionHistory)
                   ELSE <<>>
           remainingKeys == IF twice /\ keys # <<>> THEN Front(keys) ELSE keys
           taken == SelectSeq([i \in 1..Len(remaining) |-> remaining[i].capturedPiece],
                              LAMBDA piece : piece # null)
           takenBy(color) ==
               SelectSeq(taken, LAMBDA piece : getPieceColor(piece) = opponentOf(color))
       IN  chessGame' = [chessGame EXCEPT
                            !.moveHistory = remaining,
                            !.positionHistory = remainingKeys,
                            !.board = IF remaining # <<>>
                                      THEN remaining[Len(remaining)].board
                                      ELSE InitialBoard,
                            !.currentTurn = chessGame.playerColor,
                            !.gameOver = FALSE,
                            !.selectedSquare = NoTarget, !.validMoves = <<>>,
                            !.capturedPieces = [white |-> takenBy("white"),
                                                black |-> takenBy("black")]]
    /\ poll' = "none"
    /\ UNCHANGED <<workerSide, inbox, outbox, aiStartTime, hardTimeoutId, posted, now>>

\* ChessGame.setAIElo
setAIElo(elo) ==
    /\ chessGame' = [chessGame EXCEPT !.aiElo = elo]
    /\ poll' = "none"
    /\ UNCHANGED <<workerSide, inbox, outbox, aiStartTime, hardTimeoutId, posted, now>>

\* Time passes, up to the next instant at which something changes.
Tick ==
    /\ \E t \in {deadline, hardTimeoutId} :
          /\ t > now
          /\ t = deadline => Searching
          /\ now' = t
    /\ poll' = "none"
    /\ UNCHANGED <<globals, tables, handler, nodesSearched, forceTimeout, root,
                   stack, ret, inbox, outbox, mainThread, tripped, stopInSearch>>

(***************************************************************************)
(* Worker: calls and returns                                                *)
(***************************************************************************)
Top == stack[Len(stack)]

NoKey == [placement |-> <<>>, turn |-> "", castling |-> <<>>, enPassant |-> <<>>]

\* What a call reads of the position when it is entered.
Snapshot(brd) ==
    [board |-> brd, castlingRights |-> castlingRights,
     enPassantTarget |-> enPassantTarget]

\* The frame of a call of alphaBetaSearch ("ab") or quiescenceSearch ("qs")
\* being entered on board brd.
NewFrame(kind, depth, alpha, beta, isMaximizing, searchDepth, brd) ==
    [kind |-> kind, pc |-> "entry", depth |-> depth, alpha |-> alpha, beta |-> beta,
     isMaximizing |-> isMaximizing, searchDepth |-> searchDepth, boardKey |-> NoKey,
     orderedMoves |-> <<>>, idx |-> 0, eval |-> 0, bestMoveAtDepth |-> NoMove,
     piece |-> null, captured |-> null, entry |-> Snapshot(brd)]

\* The ways a step of a call ends: it returns a value, throws, goes on in
\* its own frame, or calls.
Returns(value) == [kind |-> "return", value |-> value, frame |-> Top, callee |-> Top]
Throws == [kind |-> "throw", value |-> 0, frame |-> Top, callee |-> Top]
Continues(frame) == [kind |-> "continue", value |-> 0, frame |-> frame, callee |-> frame]
Calls(frame, callee) == [kind |-> "call", value |-> 0, frame |-> frame, callee |-> callee]

\* An uncaught exception ends the handler; the main thread gets an error
\* event.
ErrorEvent == [type |-> "error"]

Step(out) ==
    /\ stack' = CASE out.kind = "return" -> Front(stack)
                  [] out.kind = "throw" -> <<>>
                  [] out.kind = "continue" -> Front(stack) \o <<out.frame>>
                  [] out.kind = "call" -> Front(stack) \o <<out.frame, out.callee>>
    /\ ret' = IF out.kind = "return" THEN out.value ELSE ret
    /\ root' = IF out.kind = "throw" THEN IdleRoot ELSE root
    /\ outbox' = IF out.kind = "throw" THEN Append(outbox, ErrorEvent) ELSE outbox

\* The poll without the node budget.
TimedOutByClock(nodes) == forceTimeout \/ now >= deadline

TimedOut(nodes) == forceTimeout \/ now >= deadline \/ nodes > settings.maxNodes

SideToMove(isMaximizing) == IF isMaximizing THEN aiColor ELSE opponentOf(aiColor)

\* The call that stores an entry: its side and the settings it scores by.
StoredBy(frame) == [isMaximizing |-> frame.isMaximizing, settings |-> settings]

TTSet(boardKey, score, depth, bestMove) ==
    (boardKey :> [score |-> score, depth |-> depth, bestMove |-> bestMove])
        @@ transpositionTable

(***************************************************************************)
(* Worker: alphaBetaSearch                                                  *)
(***************************************************************************)
\* From the entry of alphaBetaSearch to its first move loop iteration.
ABEntry ==
    /\ stack # <<>> /\ Top.kind = "ab" /\ Top.pc = "entry"
    /\ LET f == Top
           nodes == nodesSearched + 1
           timedOut == TimedOut(nodes)
           repetitions == countRepetitions(G, positionHistory)
           boardKey == getFEN(G)
           known == boardKey \in DOMAIN transpositionTable
           hit == known /\ transpositionTable[boardKey].depth >= f.depth
           color == SideToMove(f.isMaximizing)
           moves == getAllValidMoves(G, color)
           terminal == IF isInCheck(G, color)
                       THEN (IF f.isMaximizing THEN -MATE_SCORE ELSE MATE_SCORE)
                       ELSE 0
           ttMove == IF known THEN transpositionTable[boardKey].bestMove ELSE NoMove
           searched == ~timedOut /\ repetitions < 2 /\ ~hit
           out ==
               IF timedOut THEN Returns(quickEval(G))
               ELSE IF repetitions >= 2 THEN Returns(0)
               ELSE IF hit THEN Returns(transpositionTable[boardKey].score)
               ELSE IF f.depth = 0
               THEN IF settings.useQuiescence
                    THEN Calls([f EXCEPT !.pc = "leaf", !.boardKey = boardKey],
                               NewFrame("qs", 0, f.alpha, f.beta, f.isMaximizing, 0, board))
                    ELSE IF ThrowsEvaluatePosition(G, settings) THEN Throws
                    ELSE Returns(evaluatePosition(G, settings))
               ELSE IF ThrowsAllValidMoves(G, color) THEN Throws
               ELSE IF moves = <<>>
               THEN IF ThrowsIsInCheck(G, color) THEN Throws ELSE Returns(terminal)
               ELSE Continues([f EXCEPT
                        !.pc = "loop", !.boardKey = boardKey,
                        !.orderedMoves = orderMoves(G, killerMoves, historyTable, moves,
                                                    ttMove, f.searchDepth),
                        !.idx = 1,
                        !.eval = IF f.isMaximizing THEN -Infinity ELSE Infinity,
                        !.bestMoveAtDepth = NoMove])
       IN  /\ nodesSearched' = nodes
           /\ poll' = IF timedOut THEN "tripped" ELSE "clear"
           /\ tripped' = (tripped \/ timedOut)
           /\ Step(out)
           /\ transpositionTable' =
                IF searched /\ out.kind = "return"
                THEN TTSet(boardKey, out.value, f.depth, NoMove)
                ELSE transpositionTable
           /\ ttStoredBy' =
                IF searched /\ out.kind = "return"
                THEN (boardKey :> StoredBy(f)) @@ ttStoredBy ELSE ttStoredBy
    /\ UNCHANGED <<globals, killerMoves, historyTable, ttOthers, forceTimeout,
                   handler, inbox, mainThread, now, stopInSearch>>

\* The head of the move loop of alphaBetaSearch: poll, make the move and
\* recurse, or leave the loop, store the node and return.
ABLoop ==
    /\ stack # <<>> /\ Top.kind = "ab" /\ Top.pc = "loop"
    /\ LET f == Top
           done == f.idx > Len(f.orderedMoves)
           timedOut == ~done /\ TimedOut(nodesSearched)
           move == f.orderedMoves[f.idx]
           piece == board[move.fromRow][move.fromCol]
           captured == board[move.toRow][move.toCol]
           made == MakeSearchMove(board, move)
       IN  /\ poll' = IF done THEN "none" ELSE IF timedOut THEN "tripped" ELSE "clear"
           /\ tripped' = (tripped \/ timedOut)
           /\ IF done \/ timedOut
              THEN /\ Step(Returns(f.eval))
                   /\ transpositionTable' =
                        TTSet(f.boardKey, f.eval, f.depth, f.bestMoveAtDepth)
                   /\ ttStoredBy' = (f.boardKey :> StoredBy(f)) @@ ttStoredBy
                   /\ board' = board
              ELSE /\ Step(Calls([f EXCEPT !.pc = "resume", !.piece = piece,
                                           !.captured = captured],
                                 NewFrame("ab", f.depth - 1, f.alpha, f.beta,
                                          ~f.isMaximizing, f.searchDepth + 1, made)))
                   /\ transpositionTable' = transpositionTable
                   /\ ttStoredBy' = ttStoredBy
                   /\ board' = made
    /\ UNCHANGED <<aiColor, currentTurn, castlingRights, enPassantTarget,
                   positionHistory, killerMoves, historyTable, ttOthers,
                   nodesSearched, forceTimeout, handler, inbox, mainThread, now,
                   stopInSearch>>

\* The rest of a move loop iteration of alphaBetaSearch, after the recursive
\* call has returned: unmake, update the bounds, cut off.
ABResume ==
    /\ stack # <<>> /\ Top.kind = "ab" /\ Top.pc = "resume"
    /\ LET f == Top
           move == f.orderedMoves[f.idx]
           evaluation == ret
           improves == IF f.isMaximizing THEN evaluation > f.eval ELSE evaluation < f.eval
           eval == IF improves THEN evaluation ELSE f.eval
           bestMoveAtDepth == IF improves THEN move ELSE f.bestMoveAtDepth
           alpha == IF f.isMaximizing THEN Max(f.alpha, evaluation) ELSE f.alpha
           beta == IF f.isMaximizing THEN f.beta ELSE Min(f.beta, evaluation)
           cutoff == beta <= alpha
       IN  /\ board' = UnmakeSearchMove(board, move, f.piece, f.captured)
           /\ killerMoves' = IF cutoff /\ f.captured = null
                             THEN storeKillerMove(killerMoves, move, f.searchDepth)
                             ELSE killerMoves
           /\ historyTable' = IF cutoff THEN updateHistory(historyTable, move, f.depth)
                              ELSE historyTable
           /\ transpositionTable' =
                IF cutoff THEN TTSet(f.boardKey, eval, f.depth, bestMoveAtDepth)
                ELSE transpositionTable
           /\ ttStoredBy' =
                IF cutoff THEN (f.boardKey :> StoredBy(f)) @@ ttStoredBy
                ELSE ttStoredBy
           /\ Step(IF cutoff THEN Returns(eval)
                   ELSE Continues([f EXCEPT !.pc = "loop", !.idx = f.idx + 1,
                                            !.eval = eval,
                                            !.bestMoveAtDepth = bestMoveAtDepth,
                                            !.alpha = alpha, !.beta = beta]))
    /\ poll' = "none"
    /\ UNCHANGED <<aiColor, currentTurn, castlingRights, enPassantTarget,
                   positionHistory, ttOthers, nodesSearched, forceTimeout, handler,
                   inbox, mainThread, now, tripped, stopInSearch>>

\* A leaf of alphaBetaSearch after its quiescenceSearch has returned.
ABLeaf ==
    /\ stack # <<>> /\ Top.kind = "ab" /\ Top.pc = "leaf"
    /\ transpositionTable' = TTSet(Top.boardKey, ret, Top.depth, NoMove)
    /\ ttStoredBy' = (Top.boardKey :> StoredBy(Top)) @@ ttStoredBy
    /\ Step(Returns(ret))
    /\ poll' = "none"
    /\ UNCHANGED <<globals, killerMoves, historyTable, ttOthers, nodesSearched,
                   forceTimeout, handler, inbox, mainThread, now, tripped,
                   stopInSearch>>

(***************************************************************************)
(* Worker: quiescenceSearch                                                 *)
(***************************************************************************)
\* The tactical filter reading the origin of the move where it is to read
\* the target.
IsTacticalByOrigin(move, color) ==
    \/ board[move.fromRow][move.fromCol] # null
    \/ isInCheck([G EXCEPT !.board = MakeSearchMove(board, move)], opponentOf(color))

\* The tactical filter: captures, and moves after which the opponent is in
\* check.
IsTactical(move, color) ==
    \/ board[move.toRow][move.toCol] # null
    \/ isInCheck([G EXCEPT !.board = MakeSearchMove(board, move)], opponentOf(color))

ThrowsTactical(moves, color) ==
    \E i \in 1..Len(moves) :
        /\ board[moves[i].toRow][moves[i].toCol] = null
        /\ ThrowsIsInCheck([G EXCEPT !.board = MakeSearchMove(board, moves[i])],
                           opponentOf(color))

\* From the entry of quiescenceSearch to its first move loop iteration.
QSEntry ==
    /\ stack # <<>> /\ Top.kind = "qs" /\ Top.pc = "entry"
    /\ LET f == Top
           deep == f.depth > 4
           timedOut == ~deep /\ TimedOut(nodesSearched)
           standPat == evaluatePosition(G, settings)
           alpha == IF f.isMaximizing /\ f.alpha < standPat THEN standPat ELSE f.alpha
           beta == IF ~f.isMaximizing /\ f.beta > standPat THEN standPat ELSE f.beta
           color == SideToMove(f.isMaximizing)
           allMoves == getAllValidMoves(G, color)
           tactical(move) == IsTactical(move, color)
           tacticalMoves == SelectSeq(allMoves, tactical)
           out ==
               IF ThrowsEvaluatePosition(G, settings) THEN Throws
               ELSE IF deep \/ timedOut THEN Returns(standPat)
               ELSE IF f.isMaximizing /\ standPat >= f.beta THEN Returns(f.beta)
               ELSE IF ~f.isMaximizing /\ standPat <= f.alpha THEN Returns(f.alpha)
               ELSE IF ThrowsAllValidMoves(G, color) THEN Throws
               ELSE IF ThrowsTactical(allMoves, color) THEN Throws
               ELSE IF tacticalMoves = <<>> THEN Returns(standPat)
               ELSE Continues([f EXCEPT
                        !.pc = "loop", !.alpha = alpha, !.beta = beta,
                        !.orderedMoves = orderMoves(G, killerMoves, historyTable,
                                                    tacticalMoves, NoMove, 0),
                        !.idx = 1])
       IN  /\ poll' = IF deep THEN "none" ELSE IF timedOut THEN "tripped" ELSE "clear"
           /\ tripped' = (tripped \/ timedOut)
           /\ Step(out)
    /\ UNCHANGED <<globals, tables, nodesSearched, forceTimeout, handler, inbox,
                   mainThread, now, stopInSearch>>

\* The head of the move loop of quiescenceSearch.
QSLoop ==
    /\ stack # <<>> /\ Top.kind = "qs" /\ Top.pc = "loop"
    /\ LET f == Top
           done == f.idx > Len(f.orderedMoves)
           timedOut == ~done /\ TimedOut(nodesSearched)
           move == f.orderedMoves[f.idx]
           piece == board[move.fromRow][move.fromCol]
           captured == board[move.toRow][move.toCol]
           made == MakeSearchMove(board, move)
       IN  /\ poll' = IF done THEN "none" ELSE IF timedOut THEN "tripped" ELSE "clear"
           /\ tripped' = (tripped \/ timedOut)
           /\ IF done \/ timedOut
              THEN /\ Step(Returns(IF f.isMaximizing THEN f.alpha ELSE f.beta))
                   /\ board' = board
              ELSE /\ Step(Calls([f EXCEPT !.pc = "resume", !.piece = piece,
                                           !.captured = captured],
                                 NewFrame("qs", f.depth + 1, f.alpha, f.beta,
                                          ~f.isMaximizing, 0, made)))
                   /\ board' = made
    /\ UNCHANGED <<aiColor, currentTurn, castlingRights, enPassantTarget,
                   positionHistory, tables, nodesSearched, forceTimeout, handler,
                   inbox, mainThread, now, stopInSearch>>

\* The rest of a move loop iteration of quiescenceSearch.
QSResume ==
    /\ stack # <<>> /\ Top.kind = "qs" /\ Top.pc = "resume"
    /\ LET f == Top
           move == f.orderedMoves[f.idx]
           score == ret
           alpha == IF f.isMaximizing /\ score > f.alpha THEN score ELSE f.alpha
           beta == IF ~f.isMaximizing /\ score < f.beta THEN score ELSE f.beta
       IN  /\ board' = UnmakeSearchMove(board, move, f.piece, f.captured)
           /\ Step(IF f.isMaximizing /\ score >= f.beta THEN Returns(f.beta)
                   ELSE IF ~f.isMaximizing /\ score <= f.alpha THEN Returns(f.alpha)
                   ELSE Continues([f EXCEPT !.pc = "loop", !.idx = f.idx + 1,
                                            !.alpha = alpha, !.beta = beta]))
    /\ poll' = "none"
    /\ UNCHANGED <<aiColor, currentTurn, castlingRights, enPassantTarget,
                   positionHistory, tables, nodesSearched, forceTimeout, handler,
                   inbox, mainThread, now, tripped, stopInSearch>>

(***************************************************************************)
(* Worker: self.onmessage and getBestMove                                   *)
(***************************************************************************)
MoveMessage(move, score, depth, nodes, time) ==
    [type |-> "move", move |-> move, score |-> score, depth |-> depth,
     nodes |-> nodes, time |-> time]

ProgressMessage(depth, nodes, score) ==
    [type |-> "progress", depth |-> depth, nodes |-> nodes, score |-> score]

\* onmessage for a search request, through getBestMove to the head of the
\* iterative deepening loop, or to the result where there is no search.
ReceiveSearch ==
    /\ ~Searching
    /\ inbox # <<>> /\ Head(inbox).type = "search"
    /\ "settings" \in DOMAIN Head(inbox)
    /\ LET data == Head(inbox)
           g == [board |-> data.board, aiColor |-> data.aiColor,
                 currentTurn |-> data.currentTurn,
                 castlingRights |-> data.castlingRights,
                 enPassantTarget |-> data.enPassantTarget]
           throws == ThrowsAllValidMoves(g, data.aiColor)
       IN  \E moves \in {IF throws THEN <<>> ELSE getAllValidMoves(g, data.aiColor)} :
           LET random == ~throws /\ moves # <<>> /\ data.settings.searchDepth = 0
               searches == ~throws /\ moves # <<>> /\ data.settings.searchDepth # 0
           IN
           /\ inbox' = Tail(inbox)
           /\ board' = data.board
           /\ aiColor' = data.aiColor
           /\ currentTurn' = data.currentTurn
           /\ castlingRights' = data.castlingRights
           /\ enPassantTarget' = data.enPassantTarget
           /\ positionHistory' = data.positionHistory
           /\ settings' = data.settings
           /\ startTime' = now
           /\ selection' = NoSelection
           /\ deadline' = now + (data.settings.timePerMove * 9) \div 10
           /\ forceTimeout' = FALSE
           /\ nodesSearched' = 0
           /\ transpositionTable' =
                IF TableSize > TT_LIMIT THEN EmptyMap ELSE transpositionTable
           /\ ttStoredBy' = IF TableSize > TT_LIMIT THEN EmptyMap ELSE ttStoredBy
           /\ ttOthers' = IF TableSize > TT_LIMIT THEN 0 ELSE ttOthers
           /\ root' = IF searches
                      THEN [IdleRoot EXCEPT !.pc = "depthLoop", !.moves = moves,
                                            !.bestMove = moves[1], !.depth = 1,
                                            !.entry = [board |-> data.board,
                                                castlingRights |-> data.castlingRights,
                                                enPassantTarget |-> data.enPassantTarget]]
                      ELSE IdleRoot
           /\ \E move \in (IF random THEN Range(moves) ELSE {NoMove}) :
                outbox' = IF throws THEN Append(outbox, ErrorEvent)
                          ELSE IF searches THEN outbox
                          ELSE Append(outbox, MoveMessage(move, 0, 0, 0, 0))
    /\ poll' = "none"
    /\ UNCHANGED <<killerMoves, historyTable, stack, ret, mainThread, now, tripped,
                   stopInSearch>>

\* onmessage for a search request that has no settings: the position is
\* assigned, then settings.timePerMove throws a TypeError.
ReceiveSearchWithoutSettings ==
    /\ ~Searching
    /\ inbox # <<>> /\ Head(inbox).type = "search"
    /\ "settings" \notin DOMAIN Head(inbox)
    /\ LET data == Head(inbox)
       IN  /\ inbox' = Tail(inbox)
           /\ board' = data.board
           /\ aiColor' = data.aiColor
           /\ currentTurn' = data.currentTurn
           /\ castlingRights' = data.castlingRights
           /\ enPassantTarget' = data.enPassantTarget
           /\ positionHistory' = data.positionHistory
           /\ outbox' = Append(outbox, ErrorEvent)
    /\ poll' = "none"
    /\ UNCHANGED <<tables, nodesSearched, forceTimeout, handler, root, stack, ret,
                   mainThread, now, tripped, stopInSearch>>

\* onmessage for stop.
ReceiveStop ==
    /\ ~Searching
    /\ inbox # <<>> /\ Head(inbox).type = "stop"
    /\ inbox' = Tail(inbox)
    /\ forceTimeout' = TRUE
    /\ poll' = "none"
    /\ UNCHANGED <<globals, tables, nodesSearched, handler, root, stack, ret, outbox,
                   mainThread, now, tripped, stopInSearch>>

\* The head of the iterative deepening loop.
RootDepthLoop ==
    /\ root.pc = "depthLoop"
    /\ LET over == root.depth > settings.searchDepth
           timedOut == ~over /\ (forceTimeout \/ now >= deadline)
       IN  /\ root' = IF over \/ timedOut THEN [root EXCEPT !.pc = "select"]
                      ELSE [root EXCEPT
                               !.pc = "moveLoop",
                               !.orderedMoves = orderMoves(G, killerMoves, historyTable,
                                                           root.moves, root.bestMove, 0),
                               !.idx = 1, !.depthBestMove = NoMove,
                               !.depthBestScore = -Infinity, !.depthMoveScores = <<>>]
           /\ poll' = IF over THEN "none" ELSE IF timedOut THEN "tripped" ELSE "clear"
           /\ tripped' = timedOut
    /\ UNCHANGED <<globals, tables, nodesSearched, forceTimeout, handler, stack, ret,
                   inbox, outbox, mainThread, now, stopInSearch>>

\* The head of the root move loop: poll, check the node limit, make the
\* move and search it.
RootMoveLoop ==
    /\ root.pc = "moveLoop"
    /\ LET done == root.idx > Len(root.orderedMoves)
           timedOut == ~done /\ (forceTimeout \/ now >= deadline)
           overLimit == ~done /\ ~timedOut /\ nodesSearched > settings.maxNodes
           move == root.orderedMoves[root.idx]
           piece == board[move.fromRow][move.fromCol]
           captured == board[move.toRow][move.toCol]
           made == MakeSearchMove(board, move)
       IN  /\ poll' = IF done THEN "none"
                      ELSE IF timedOut \/ overLimit THEN "tripped" ELSE "clear"
           /\ tripped' = (tripped \/ timedOut \/ overLimit)
           /\ forceTimeout' = (forceTimeout \/ overLimit)
           /\ IF done \/ timedOut \/ overLimit
              THEN /\ root' = [root EXCEPT !.pc = "accept"]
                   /\ UNCHANGED <<board, stack>>
              ELSE /\ root' = [root EXCEPT !.pc = "resume", !.piece = piece,
                                           !.captured = captured]
                   /\ board' = made
                   /\ stack' = <<NewFrame("ab", root.depth - 1, -Infinity, Infinity,
                                          FALSE, 0, made)>>
    /\ UNCHANGED <<aiColor, currentTurn, castlingRights, enPassantTarget,
                   positionHistory, tables, nodesSearched, handler, ret, inbox, outbox,
                   mainThread, now, stopInSearch>>

\* The rest of a root move loop iteration, after alphaBetaSearch returned.
RootResume ==
    /\ root.pc = "resume" /\ stack = <<>>
    /\ LET move == root.orderedMoves[root.idx]
           score == -ret
           better == score > root.depthBestScore
       IN  /\ board' = UnmakeSearchMove(board, move, root.piece, root.captured)
           /\ root' = [root EXCEPT
                          !.pc = "moveLoop", !.idx = root.idx + 1,
                          !.depthMoveScores =
                              Append(root.depthMoveScores, [move |-> move, score |-> score]),
                          !.depthBestScore = IF better THEN score ELSE root.depthBestScore,
                          !.depthBestMove = IF better THEN move ELSE root.depthBestMove]
    /\ poll' = "none"
    /\ UNCHANGED <<aiColor, currentTurn, castlingRights, enPassantTarget,
                   positionHistory, tables, nodesSearched, forceTimeout, handler,
                   stack, ret, inbox, outbox, mainThread, now, tripped, stopInSearch>>

\* After the root move loop: accept the depth and post progress, or not.
RootAccept ==
    /\ root.pc = "accept"
    /\ LET accepted == root.depthBestMove # NoMove /\ ~forceTimeout /\ now < deadline
       IN  /\ root' = IF accepted
                      THEN [root EXCEPT
                               !.pc = "depthLoop", !.depth = root.depth + 1,
                               !.bestMove = root.depthBestMove,
                               !.bestScore = root.depthBestScore,
                               !.allMoveScores = root.depthMoveScores,
                               !.completedDepth = root.depth]
                      ELSE [root EXCEPT !.pc = "depthLoop", !.depth = root.depth + 1]
           /\ outbox' = IF accepted
                        THEN Append(outbox, ProgressMessage(root.depth, nodesSearched,
                                                            root.depthBestScore))
                        ELSE outbox
    /\ poll' = "none"
    /\ UNCHANGED <<globals, tables, nodesSearched, forceTimeout, handler, stack, ret,
                   inbox, mainThread, now, tripped, stopInSearch>>

\* After the iterative deepening loop: choose the move and post the result.
RootSelect ==
    /\ root.pc = "select"
    /\ LET sorted == SortMoveScores(root.allMoveScores)
           blunders == IF root.allMoveScores = <<>> THEN {NoMove}
                       ELSE maybeBlunder(sorted, settings)
       IN  \E blunderMove \in blunders :
             \E move \in (IF root.allMoveScores = <<>> THEN {root.bestMove}
                          ELSE IF blunderMove # NoMove THEN {blunderMove}
                          ELSE selectMoveWithSoftmax(sorted, settings)) :
               /\ outbox' = Append(outbox, MoveMessage(move, root.bestScore,
                                                       root.completedDepth,
                                                       nodesSearched, now - startTime))
               /\ selection' = IF root.allMoveScores = <<>> THEN selection
                               ELSE [moveScores |-> sorted, blunderMove |-> blunderMove]
    /\ root' = IdleRoot
    /\ poll' = "none"
    /\ UNCHANGED <<globals, tables, nodesSearched, forceTimeout, settings, deadline,
                   startTime, stack, ret, inbox, mainThread, now, tripped,
                   stopInSearch>>

Next ==
    \/ \E request \in Requests : makeAIMove(request)
    \/ HardTimeout
    \/ WorkerReplied
    \/ Tick
    \/ ReceiveSearch
    \/ ReceiveStop
    \/ RootDepthLoop
    \/ RootMoveLoop
    \/ RootResume
    \/ RootAccept
    \/ RootSelect
    \/ ABEntry
    \/ ABLoop
    \/ ABResume
    \/ ABLeaf
    \/ QSEntry
    \/ QSLoop
    \/ QSResume

Spec == Init /\ [][Next]_vars

\* Game after game on one worker, every search finishing within the clock
\* instant it started in: no timer fires during a search.
NextNewGame ==
    \/ \E request \in Requests : makeAIMove(request)
    \/ newGame
    \/ WorkerReplied
    \/ ReceiveSearch
    \/ RootDepthLoop
    \/ RootMoveLoop
    \/ RootResume
    \/ RootAccept
    \/ RootSelect
    \/ ABEntry
    \/ ABLoop
    \/ ABResume
    \/ ABLeaf
    \/ QSEntry
    \/ QSLoop
    \/ QSResume

SpecNewGame == Init /\ [][NextNewGame]_vars

\* A worker that has served earlier games: their searches have left the
\* table with TT_LIMIT entries, which the check at the start of a search
\* does not clear.
InitFullTable ==
    /\ board = EmptyBoard
    /\ aiColor = null
    /\ currentTurn = null
    /\ castlingRights = NoCastling
    /\ enPassantTarget = NoTarget
    /\ positionHistory = <<>>
    /\ transpositionTable = EmptyMap
    /\ killerMoves = NoKillers
    /\ historyTable = EmptyMap
    /\ ttStoredBy = EmptyMap
    /\ ttOthers = TT_LIMIT
    /\ nodesSearched = 0
    /\ forceTimeout = FALSE
    /\ settings = Material(0, 0, 0, FALSE)
    /\ deadline = 0
    /\ startTime = 0
    /\ selection = NoSelection
    /\ root = IdleRoot
    /\ stack = <<>>
    /\ ret = 0
    /\ inbox = <<>>
    /\ outbox = <<>>
    /\ aiStartTime = -1
    /\ hardTimeoutId = -1
    /\ posted = <<>>
    /\ chessGame = NewChessGame
    /\ now = 0
    /\ poll = "none"
    /\ tripped = FALSE
    /\ stopInSearch = FALSE

SpecFullTable == InitFullTable /\ [][NextNewGame]_vars

\* The same game started again on one worker while the clock runs: the
\* deadline can cut either search short.
Rematch == Request(LoneMove, Material(3, MaxTime, ManyNodes, FALSE))

NextRematch ==
    \/ makeAIMove(Rematch)
    \/ newGame
    \/ HardTimeout
    \/ WorkerReplied
    \/ Tick
    \/ ReceiveSearch
    \/ ReceiveStop
    \/ RootDepthLoop
    \/ RootMoveLoop
    \/ RootResume
    \/ RootAccept
    \/ RootSelect
    \/ ABEntry
    \/ ABLoop
    \/ ABResume

SpecRematch == Init /\ [][NextRematch]_vars

\* getBestMove after its iterative deepening loop, with one completed depth:
\* every legal move of the position has a score.  The scores are drawn from
\* BlunderScores, which has scores at, next to and away from the two ends of
\* the window around best - mistakeSizeCp; the tables play no part in the
\* selection and are left empty.
BlunderScores == {0, -50, -51, -100, -149, -150, -400}

Blundering ==
    [Material(1, MaxTime, ManyNodes, FALSE) EXCEPT
        !.mistakeRate = 50, !.mistakeSizeCp = 100, !.softmaxWindow = 50]

InitBlunder ==
    \E position \in {LoneMove, TwoMoves, PawnEnding} :
    \E moves \in {getAllValidMoves(position, position.aiColor)} :
      LET n == Len(moves)
          last == moves[n]
      IN  \E scores \in [1..n -> BlunderScores] :
            LET moveScores == [i \in 1..n |-> [move |-> moves[i], score |-> scores[i]]]
                best == CHOOSE i \in 1..n :
                            /\ \A j \in 1..n : scores[j] <= scores[i]
                            /\ \A j \in 1..(i - 1) : scores[j] < scores[i]
            IN  /\ board = position.board
                /\ aiColor = position.aiColor
                /\ currentTurn = position.currentTurn
                /\ castlingRights = position.castlingRights
                /\ enPassantTarget = position.enPassantTarget
                /\ positionHistory = position.positionHistory
                /\ transpositionTable = EmptyMap
                /\ killerMoves = NoKillers
                /\ historyTable = EmptyMap
                /\ ttStoredBy = EmptyMap
                /\ ttOthers = 0
                /\ nodesSearched = n
                /\ forceTimeout = FALSE
                /\ settings = Blundering
                /\ deadline = (Blundering.timePerMove * 9) \div 10
                /\ startTime = 0
                /\ selection = NoSelection
                /\ root = [pc |-> "select", moves |-> moves, bestMove |-> moves[best],
                           bestScore |-> scores[best], completedDepth |-> 1,
                           allMoveScores |-> moveScores, depth |-> 2,
                           orderedMoves |-> moves, idx |-> n + 1,
                           depthBestMove |-> moves[best],
                           depthBestScore |-> scores[best],
                           depthMoveScores |-> moveScores,
                           piece |-> position.board[last.fromRow][last.fromCol],
                           captured |-> null,
                           entry |-> [board |-> position.board,
                                      castlingRights |-> position.castlingRights,
                                      enPassantTarget |-> position.enPassantTarget]]
                /\ stack = <<>>
                /\ ret = -scores[n]
                /\ inbox = <<>>
                /\ outbox = <<ProgressMessage(1, n, scores[best])>>
                /\ aiStartTime = 0
                /\ hardTimeoutId = Blundering.timePerMove + HARD_TIMEOUT_GRACE
                /\ posted = <<Request(position, Blundering)>>
                /\ chessGame = NewChessGame
                /\ now = 0
                /\ poll = "none"
                /\ tripped = FALSE
                /\ stopInSearch = FALSE

NextBlunder == RootSelect \/ WorkerReplied

SpecBlunder == InitBlunder /\ [][NextBlunder]_vars

(***************************************************************************)
(* Properties                                                               *)
(***************************************************************************)
Colors == {"white", "black"}

MoveMessages == {i \in 1..Len(outbox) : outbox[i].type = "move"}

MaterialOnly ==
    /\ settings.positionWeight = 0 /\ settings.mobilityWeight = 0
    /\ settings.pawnStructureWeight = 0 /\ settings.kingSafetyWeight = 0

\* A pawn of the engine takes a queen that no enemy piece defends.
PawnTakesHangingQueen(move) ==
    /\ toLowerCase(board[move.fromRow][move.fromCol]) = "p"
    /\ getPieceColor(board[move.fromRow][move.fromCol]) = aiColor
    /\ toLowerCase(board[move.toRow][move.toCol]) = "q"
    /\ getPieceColor(board[move.toRow][move.toCol]) # aiColor
    /\ ~isSquareUnderAttack([G EXCEPT !.board = MakeSearchMove(board, move)],
                            move.toRow, move.toCol, aiColor)

\* The root move loop of a depth has searched every root move and no poll
\* tripped.
DepthSearched ==
    /\ root.pc = "accept"
    /\ ~tripped
    /\ Len(root.depthMoveScores) = Len(root.moves)

\* C1: with material-only evaluation, when a depth has been searched in full,
\* a root move by which a pawn takes an undefended queen scores at least 800
\* more than every non-capturing root move, and is the depth's best move.
C1_CaptureScoresHighest ==
    (DepthSearched /\ MaterialOnly) =>
        \A i \in 1..Len(root.depthMoveScores) :
            PawnTakesHangingQueen(root.depthMoveScores[i].move) =>
                /\ root.depthBestMove = root.depthMoveScores[i].move
                /\ \A j \in 1..Len(root.depthMoveScores) :
                       LET other == root.depthMoveScores[j].move
                       IN  board[other.toRow][other.toCol] = null =>
                              root.depthMoveScores[i].score >=
                                  root.depthMoveScores[j].score + 800

\* The position after the game applies the move for the side color.
GameAfter(position, color, move) ==
    LET game == makeMove([board |-> position.board, currentTurn |-> color,
                          castlingRights |-> position.castlingRights,
                          enPassantTarget |-> position.enPassantTarget],
                         move.fromRow, move.fromCol, move.toRow, move.toCol)
    IN  [board |-> game.board, castlingRights |-> game.castlingRights,
         enPassantTarget |-> game.enPassantTarget]

\* A pawn's diagonal move to an empty square: an en-passant capture.  The
\* side is entitled to it when the pawn it passes is an enemy pawn.
EntitledIfEnPassant(color, move) ==
    (/\ toLowerCase(board[move.fromRow][move.fromCol]) = "p"
     /\ move.fromCol # move.toCol
     /\ board[move.toRow][move.toCol] = null)
    => /\ board[move.fromRow][move.toCol] # null
       /\ toLowerCase(board[move.fromRow][move.toCol]) = "p"
       /\ getPieceColor(board[move.fromRow][move.toCol]) # color

\* C2: wherever getAllValidMoves returns, every move it returns is legal:
\* an en-passant capture is made only by the side entitled to it, and the
\* mover's king is not attacked once the move is fully applied.
C2_GeneratedMovesLegal ==
    \A color \in Colors :
        ~ThrowsAllValidMoves(G, color) =>
            \A move \in Range(getAllValidMoves(G, color)) :
                /\ EntitledIfEnPassant(color, move)
                /\ LET after == [G EXCEPT !.board = GameAfter(G, color, move).board]
                   IN  ~ThrowsIsInCheck(after, color) => ~isInCheck(after, color)

Threw == Len(outbox') > Len(outbox) /\ outbox'[Len(outbox')] = ErrorEvent

\* C3: when a call of alphaBetaSearch or quiescenceSearch returns, and when
\* getBestMove returns, the board, the castling rights and the en-passant
\* target are what they were when the call was entered.
C3_ReturnRestoresPosition ==
    [][/\ (stack # <<>> /\ Len(stack') < Len(stack) /\ ~Threw)
            => Snapshot(board)' = Top.entry
       /\ (root.pc = "select" /\ root'.pc = "idle")
            => Snapshot(board)' = root.entry]_vars

\* A call has taken a piece, searched the move and put the piece back.
C3_CaptureUnmade ==
    /\ stack # <<>>
    /\ Top.pc = "loop" /\ Top.idx > 1
    /\ Top.captured # null
    /\ Snapshot(board) = Top.entry

\* C4: the position a call of the search is entered on is the position the
\* game's makeMove produces for the move from the caller's position.
C4_SearchMoveIsGameMove ==
    /\ (root.pc = "resume" /\ stack # <<>>) =>
            stack[1].entry = GameAfter(root.entry, aiColor, root.orderedMoves[root.idx])
    /\ \A k \in 1..(Len(stack) - 1) :
            stack[k].pc = "resume" =>
                stack[k + 1].entry =
                    GameAfter(stack[k].entry, SideToMove(stack[k].isMaximizing),
                              stack[k].orderedMoves[stack[k].idx])

SetMax(S) == CHOOSE x \in S : \A y \in S : y <= x
SetMin(S) == CHOOSE x \in S : \A y \in S : y >= x

\* The captures and checks of a side, as quiescenceSearch filters them.
TacticalMoves(g, color) ==
    LET tactical(move) ==
            \/ g.board[move.toRow][move.toCol] # null
            \/ isInCheck([g EXCEPT !.board = MakeSearchMove(g.board, move)],
                         opponentOf(color))
    IN  SelectSeq(getAllValidMoves(g, color), tactical)

\* The value of the quiescence tree without pruning: the side to move
\* stands pat or plays a capture or check, to five plies.
RECURSIVE PlainQuiescence(_, _, _)
PlainQuiescence(g, isMaximizing, depth) ==
    LET standPat == evaluatePosition(g, settings)
        moves == TacticalMoves(g, SideToMove(isMaximizing))
        values == {PlainQuiescence([g EXCEPT !.board = MakeSearchMove(g.board, moves[i])],
                                   ~isMaximizing, depth + 1) : i \in 1..Len(moves)}
    IN  IF depth > 4 \/ moves = <<>> THEN standPat
        ELSE IF isMaximizing THEN SetMax(values \cup {standPat})
        ELSE SetMin(values \cup {standPat})

\* Plain minimax to the given depth over getAllValidMoves, the search's move
\* application and evaluatePosition, with the terminal scores of
\* alphaBetaSearch and no tables.
RECURSIVE Minimax(_, _, _)
Minimax(g, depth, isMaximizing) ==
    LET color == SideToMove(isMaximizing)
        moves == getAllValidMoves(g, color)
        values == {Minimax([g EXCEPT !.board = MakeSearchMove(g.board, moves[i])],
                           depth - 1, ~isMaximizing) : i \in 1..Len(moves)}
    IN  IF countRepetitions(g, positionHistory) >= 2 THEN 0
        ELSE IF depth = 0
        THEN IF settings.useQuiescence THEN PlainQuiescence(g, isMaximizing, 0)
             ELSE evaluatePosition(g, settings)
        ELSE IF moves = <<>>
        THEN IF isInCheck(g, color)
             THEN (IF isMaximizing THEN -MATE_SCORE ELSE MATE_SCORE) ELSE 0
        ELSE IF isMaximizing THEN SetMax(values) ELSE SetMin(values)

\* C5: when no poll has tripped, the value alphaBetaSearch returns to the
\* root, where it is called with the full window, is the plain minimax value
\* of the position to the same depth.
C5_AlphaBetaIsMinimax ==
    (root.pc = "resume" /\ stack = <<>> /\ ~tripped /\ castlingRights = NoCastling)
        => ret = Minimax(G, root.depth - 1, FALSE)

\* C6: once a stop has been posted during the search, every timeout poll
\* of the search trips.
C6_StopObserved ==
    (poll # "none" /\ stopInSearch) => poll = "tripped"

\* The request has been taken from the queue and its handler has ended.
Handled ==
    /\ aiStartTime # -1
    /\ \A i \in 1..Len(inbox) : inbox[i].type # "search"
    /\ ~Searching

\* C7: when the handler of a search request has ended, the worker has
\* posted exactly one move message.
C7_OneFinalMove ==
    Handled => Cardinality(MoveMessages) = 1

\* C8: a depth that has just been accepted was searched in full: every root
\* move was searched and no poll tripped during the depth.
C8_AcceptedDepthComplete ==
    (/\ root.pc = "depthLoop"
     /\ root.completedDepth >= 1
     /\ root.completedDepth = root.depth - 1)
    => /\ ~tripped
       /\ Len(root.allMoveScores) = Len(root.moves)

\* C9: a result with a null move carries the mate score when the engine's
\* king is attacked and zero when it is not.
C9_TerminalScore ==
    \A i \in MoveMessages :
        (outbox[i].move = NoMove /\ ~ThrowsIsInCheck(G, aiColor)) =>
            IF isInCheck(G, aiColor)
            THEN Abs(outbox[i].score) = MATE_SCORE
            ELSE outbox[i].score = 0

\* C10: a search with searchDepth >= 1 whose deadline had elapsed when it
\* started reports depth 0, a legal move and the material-only evaluation.
C10_ElapsedDeadlineResult ==
    \A i \in MoveMessages :
        (/\ settings.searchDepth >= 1
         /\ deadline <= startTime
         /\ outbox[i].move # NoMove)
        => /\ outbox[i].depth = 0
           /\ outbox[i].move \in Range(getAllValidMoves(G, aiColor))
           /\ outbox[i].score = quickEval(G)

\* The key of the node the top call is entered on, as the game records a
\* position: its board, the castling rights, the en-passant target, and for
\* the side to move at the node the letter of the other side, since makeMove
\* pushes the key before it switches the turn.
NodeKey ==
    getFEN([G EXCEPT !.currentTurn = opponentOf(SideToMove(Top.isMaximizing))])

Occurrences(key) ==
    Cardinality({i \in 1..Len(positionHistory) : positionHistory[i] = key})

\* C11: a node is scored zero by the repetition test exactly when its
\* position key (board, side to move, castling rights, en-passant) occurs
\* at least twice in the position history.
C11_RepetitionByKey ==
    (/\ stack # <<>> /\ Top.kind = "ab" /\ Top.pc = "entry"
     /\ ~TimedOut(nodesSearched + 1))
    => (countRepetitions(G, positionHistory) >= 2 <=> Occurrences(NodeKey) >= 2)

\* The final results the worker has posted, in order.
Results ==
    LET isMove(message) == message.type = "move" IN SelectSeq(outbox, isMove)

\* C12: with mistake rate 0, the second of two requests for the same
\* position and settings is answered with the score of the first.
C12_SameRequestSameScore ==
    (/\ Len(posted) >= 2 /\ posted[2] = posted[1]
     /\ posted[1].settings.mistakeRate = 0
     /\ Len(Results) >= 2)
    => Results[2].score = Results[1].score

\* The engine's king is not attacked once the game has applied the move.
KingSafeAfter(move) ==
    LET after == [G EXCEPT !.board = GameAfter(G, aiColor, move).board]
    IN  ~ThrowsIsInCheck(after, aiColor) => ~isInCheck(after, aiColor)

\* C13: the move of a final result is null exactly when the engine has no
\* move in the root position, and otherwise it is a legal move of the engine
\* there: one that getAllValidMoves gives and that leaves the engine's king
\* unattacked when the game applies it.
C13_ResultMoveLegal ==
    \A i \in MoveMessages :
        ~ThrowsAllValidMoves(G, aiColor) =>
            LET moves == getAllValidMoves(G, aiColor)
            IN  /\ outbox[i].move = NoMove <=> moves = <<>>
                /\ outbox[i].move # NoMove =>
                       /\ outbox[i].move \in Range(moves)
                       /\ KingSafeAfter(outbox[i].move)

\* An enemy piece attacks the cell: a pawn the two diagonal cells ahead of
\* it, any other piece the cells it could move to or capture on.
Attacked(g, row, col, defenderColor) ==
    \E sq \in Range(AllSquares) :
        LET piece == g.board[sq.row][sq.col]
        IN  /\ piece # null
            /\ getPieceColor(piece) # defenderColor
            /\ IF toLowerCase(piece) = "p"
               THEN /\ row = sq.row + (IF piece = "P" THEN -1 ELSE 1)
                    /\ Abs(col - sq.col) = 1
               ELSE HasSquare(getRawMoves(g, sq.row, sq.col), row, col)

\* C14: a castling move is generated only when the right for the side is
\* held, the cells between king and rook are empty, and no enemy piece
\* attacks the king's start, transit or destination cell.
C14_CastlingConditions ==
    \A color \in Colors :
        ~ThrowsAllValidMoves(G, color) =>
            \A move \in Range(getAllValidMoves(G, color)) :
                (/\ toLowerCase(board[move.fromRow][move.fromCol]) = "k"
                 /\ Abs(move.toCol - move.fromCol) = 2)
                => \E i \in 1..2 :
                      /\ move.toCol = CastlingSides[i].target
                      /\ castlingRights[color][CastlingSides[i].side]
                      /\ \A c \in CastlingSides[i].empty : board[move.fromRow][c] = null
                      /\ \A c \in CastlingSides[i].safe :
                             ~Attacked(G, move.fromRow, c, color)

\* The top call is an alphaBetaSearch about to return the entry of the
\* table for its key.
ReturnsEntry ==
    /\ stack # <<>> /\ Top.kind = "ab" /\ Top.pc = "entry"
    /\ ~TimedOut(nodesSearched + 1)
    /\ countRepetitions(G, positionHistory) < 2
    /\ getFEN(G) \in DOMAIN transpositionTable
    /\ transpositionTable[getFEN(G)].depth >= Top.depth

\* C15: an entry returned for a node was stored for a node with the same
\* side to move (the key holds the board, and the castling rights and
\* en-passant target do not change during a search).
C15_EntryOfSameSide ==
    ReturnsEntry => ttStoredBy[getFEN(G)].isMaximizing = Top.isMaximizing

\* C16: the transposition table never holds more than TT_LIMIT entries,
\* during a search or between searches.
C16_TableWithinCeiling == TableSize <= TT_LIMIT

\* C17: when getBestMove starts the search of a request, the killer table
\* is empty.
C17_KillersEmptyAtStart ==
    [][(root.pc = "idle" /\ root'.pc = "depthLoop") => killerMoves' = NoKillers]_vars


\* The condition every timeout poll tests.  Within one search it stays true
\* once it is true: forceTimeout is cleared only by the next search message,
\* and the clock and the node count only grow.
TripCondition == TimedOut(nodesSearched)

\* A step that moves a piece for the search: the board changes, and not by
\* the unmake of a loop iteration.
MakesSearchMove ==
    /\ Searching /\ board' # board
    /\ ~(stack # <<>> /\ Top.pc = "resume")
    /\ ~(stack = <<>> /\ root.pc = "resume")

EntersCall == Searching /\ Len(stack') > Len(stack)

\* The entry poll of a call of alphaBetaSearch or quiescenceSearch trips.
EntryTrips == stack # <<>> /\ Top.pc = "entry" /\ poll' = "tripped"

C18_NoDeeperAfterTrip ==
    /\ poll' = "tripped" => TripCondition'
    /\ (Searching /\ Searching' /\ TripCondition) => TripCondition'
    /\ (Searching /\ TripCondition) => (~MakesSearchMove /\ ~EntersCall)

C18_TrippedCallReturnsMaterial ==
    EntryTrips => (stack' = Front(stack) /\ ret' = quickEval(G))

\* C18: once a poll has tripped in a search, no step of that search makes a
\* move on the board or enters alphaBetaSearch or quiescenceSearch, and a
\* call whose entry poll trips returns the material-only evaluation of the
\* board it was entered on.
C18_TrippedSearchUnwinds ==
    [][C18_NoDeeperAfterTrip /\ C18_TrippedCallReturnsMaterial]_vars


\* The messages of one search are those after the final message of the
\* search before it: LastFinalBefore(i) is the index of that message, 0 in
\* the first search.
LastFinalBefore(i) ==
    SetMax({0} \cup {j \in 1..(i - 1) : outbox[j].type \in {"move", "error"}})

\* The number of progress messages of the search that posted outbox[i]
\* before outbox[i].
ProgressBefore(i) == i - LastFinalBefore(i) - 1

\* C19: in the order they were posted, the progress messages of a search
\* carry the depths 1, 2, ... with node counts that do not decrease; the
\* final result follows them and reports the depth of the last one (0 when
\* there is none), a node count not below theirs, and the score of the last
\* one.
C19_ProgressThenResult ==
    \A i \in 1..Len(outbox) :
        LET k == ProgressBefore(i) IN
        /\ outbox[i].type = "progress" =>
              /\ outbox[i].depth = k + 1
              /\ k > 0 => outbox[i].nodes >= outbox[i - 1].nodes
        /\ outbox[i].type = "move" =>
              /\ outbox[i].depth = k
              /\ k > 0 => /\ outbox[i].nodes >= outbox[i - 1].nodes
                          /\ outbox[i].score = outbox[i - 1].score


\* The entries of the ranked list whose score is less than 50 from
\* best - mistakeSizeCp.
NearTarget ==
    LET moveScores == selection.moveScores
        targetScore == moveScores[1].score - settings.mistakeSizeCp
    IN  {i \in 1..Len(moveScores) : Abs(moveScores[i].score - targetScore) < 50}

C20_BlunderedMiddle ==
    /\ selection.blunderMove # NoMove
    /\ NearTarget = {}


\* getBestMove has returned the move selectMoveWithSoftmax gave it: the
\* last message is its result.
SoftmaxSelected ==
    /\ selection.moveScores # <<>> /\ selection.blunderMove = NoMove
    /\ outbox # <<>> /\ outbox[Len(outbox)].type = "move"

\* The entries of the ranked list within softmaxWindow of the best score.
InWindow ==
    LET moveScores == selection.moveScores
    IN  {i \in 1..Len(moveScores) :
            moveScores[i].score >= moveScores[1].score - settings.softmaxWindow}

MinRating == 400
MaxRating == 2300

Ratings == {elo \in MinRating..MaxRating : elo % 50 = 0}

NextRating ==
    \/ \E elo \in Ratings : setAIElo(elo)
    \/ handleSquareClick(6, 4, 4, 4)
    \/ TimerMakeAIMove

SpecRating == Init /\ [][NextRating]_vars

Clamped(elo) == Max(500, Min(2200, elo))

\* The second bundle is at least as strong as the first.
NoWeaker(low, high) ==
    /\ low.searchDepth <= high.searchDepth
    /\ low.timePerMove <= high.timePerMove
    /\ low.maxNodes <= high.maxNodes
    /\ low.mistakeRate >= high.mistakeRate
    /\ low.mistakeSizeCp >= high.mistakeSizeCp
    /\ low.temperature >= high.temperature
    /\ low.softmaxWindow >= high.softmaxWindow

DocumentedDepth ==
    (500 :> 0) @@ (750 :> 1) @@ (1000 :> 2) @@ (1250 :> 3) @@ (1500 :> 4) @@
    (1750 :> 5) @@ (2000 :> 6) @@ (2250 :> 7)

\* C23: at each documented level the derived search depth is the documented
\* ply count.
C23_DepthAsDocumented ==
    chessGame.aiElo \in DOMAIN DocumentedDepth =>
        getAISettings(chessGame.aiElo).searchDepth = DocumentedDepth[chessGame.aiElo]


(***************************************************************************)
(* A game against the rating 500 engine, which plays a move drawn at         *)
(* random from its valid moves.  The player's clicks and the engine's draws *)
(* are taken from the moves of one line of play.                            *)
(***************************************************************************)
\* 1. e4 c6  2. e5 Qa5  3. Ke2 a6  4. Ke3 b6  5. Kf4 g6  6. Kg5 f5
\* 7. exf6 (en passant) Qxg5
WhiteLine ==
    {<<6, 4, 4, 4>>, <<4, 4, 3, 4>>, <<7, 4, 6, 4>>, <<6, 4, 5, 4>>, <<5, 4, 4, 5>>,
     <<4, 5, 3, 6>>, <<3, 4, 2, 5>>}

BlackLine ==
    {<<1, 2, 2, 2>>, <<0, 3, 3, 0>>, <<1, 0, 2, 0>>, <<1, 1, 2, 1>>, <<1, 6, 2, 6>>,
     <<1, 5, 3, 5>>, <<3, 0, 3, 6>>}

\* The rating has been set to 500.
InitGame ==
    \E game \in {[NewChessGame EXCEPT !.aiElo = 500]} :
        /\ board = EmptyBoard
        /\ aiColor = null
        /\ currentTurn = null
        /\ castlingRights = NoCastling
        /\ enPassantTarget = NoTarget
        /\ positionHistory = <<>>
        /\ transpositionTable = EmptyMap
        /\ killerMoves = NoKillers
        /\ historyTable = EmptyMap
        /\ ttStoredBy = EmptyMap
        /\ ttOthers = 0
        /\ nodesSearched = 0
        /\ forceTimeout = FALSE
        /\ settings = Material(0, 0, 0, FALSE)
        /\ deadline = 0
        /\ startTime = 0
        /\ selection = NoSelection
        /\ root = IdleRoot
        /\ stack = <<>>
        /\ ret = 0
        /\ inbox = <<>>
        /\ outbox = <<>>
        /\ aiStartTime = -1
        /\ hardTimeoutId = -1
        /\ posted = <<>>
        /\ chessGame = game
        /\ now = 0
        /\ poll = "none"
        /\ tripped = FALSE
        /\ stopInSearch = FALSE

\* onmessage for a search request, the random move of getBestMove being one
\* of line.
ReceiveSearchDrawing(line) ==
    /\ ReceiveSearch
    /\ LET result == outbox'[Len(outbox')]
       IN  result.type = "move" /\ result.move # NoMove =>
              <<result.move.fromRow, result.move.fromCol,
                result.move.toRow, result.move.toCol>> \in line

NextGame ==
    \/ \E m \in WhiteLine : handleSquareClick(m[1], m[2], m[3], m[4])
    \/ TimerMakeAIMove
    \/ ReceiveSearchDrawing(BlackLine)
    \/ handleWorkerMessage

SpecGame == InitGame /\ [][NextGame]_vars

KingsOf(color) ==
    {sq \in (0..7) \X (0..7) :
        /\ chessGame.board[sq[1]][sq[2]] # null
        /\ toLowerCase(chessGame.board[sq[1]][sq[2]]) = "k"
        /\ getPieceColor(chessGame.board[sq[1]][sq[2]]) = color}

\* C24: in every position of a game played from the initial position by moves
\* the game accepts, each colour has exactly one king.
C24_OneKingEach ==
    \A color \in {"white", "black"} : Cardinality(KingsOf(color)) = 1


(***************************************************************************)
(* Requests without settings.  A client of the worker posts search          *)
(* messages, some of them lacking the settings field.                        *)
(***************************************************************************)
WellFormed ==
    {Request(LoneMove, Material(1, MaxTime, ManyNodes, FALSE)),
     Request(TwoMoves, Material(1, MaxTime, ManyNodes, FALSE)),
     Request(PawnEnding, Material(0, MaxTime, ManyNodes, FALSE))}

WithoutSettings(request) ==
    [field \in DOMAIN request \ {"settings"} |-> request[field]]

\* aiWorker.postMessage
postMessage(message) ==
    /\ Len(posted) < MaxGames
    /\ inbox' = Append(inbox, message)
    /\ posted' = Append(posted, message)
    /\ poll' = "none"
    /\ UNCHANGED <<workerSide, outbox, aiStartTime, hardTimeoutId, chessGame, now>>

NextMalformed ==
    \/ \E request \in WellFormed : postMessage(request)
    \/ \E request \in WellFormed : postMessage(WithoutSettings(request))
    \/ ReceiveSearch
    \/ ReceiveSearchWithoutSettings
    \/ RootDepthLoop
    \/ RootMoveLoop
    \/ RootResume
    \/ RootAccept
    \/ RootSelect
    \/ ABEntry

SpecMalformed == Init /\ [][NextMalformed]_vars

\* The worker takes a search message without settings from its queue.
TakesMalformed ==
    /\ ~Searching
    /\ inbox # <<>> /\ Head(inbox).type = "search"
    /\ "settings" \notin DOMAIN Head(inbox)
    /\ inbox' = Tail(inbox)

\* C25: a search request without settings is rejected before the search
\* begins: the worker's position and tables stay as they were, no search
\* step runs and no progress or move message is posted.
C25_MalformedRejected ==
    [][TakesMalformed =>
        /\ UNCHANGED <<globals, transpositionTable, killerMoves, historyTable>>
        /\ ~Searching'
        /\ \/ outbox' = outbox
           \/ outbox'[Len(outbox')].type \notin {"move", "progress"}]_vars


(***************************************************************************)
(* The engine opens the game: the player has chosen black, newGame posts    *)
(* the starting position, and the search is one ply deep on material alone. *)
(***************************************************************************)
Opening ==
    Request([board |-> InitialBoard, aiColor |-> "white", currentTurn |-> "white",
             castlingRights |-> AllCastling, enPassantTarget |-> NoTarget,
             positionHistory |-> <<>>],
            Material(1, MaxTime, ManyNodes, FALSE))

NextOpening ==
    \/ makeAIMove(Opening)
    \/ WorkerReplied
    \/ ReceiveSearch
    \/ RootDepthLoop
    \/ RootMoveLoop
    \/ RootResume
    \/ RootAccept
    \/ RootSelect
    \/ ABEntry

SpecOpening == Init /\ [][NextOpening]_vars

\* C26: every first move of the starting position gets score 0 from a
\* depth-1 search on material alone in a fresh worker: the scores recorded
\* while the depth runs, the ranked list and the result.
C26_FirstMovesScoreZero ==
    /\ \A i \in 1..Len(root.depthMoveScores) : root.depthMoveScores[i].score = 0
    /\ \A i \in 1..Len(selection.moveScores) : selection.moveScores[i].score = 0
    /\ selection.moveScores # <<>> =>
          {selection.moveScores[i].move : i \in 1..Len(selection.moveScores)}
              = Range(getAllValidMoves(Opening, "white"))
    /\ \A i \in 1..Len(outbox) :
          outbox[i].type \in {"move", "progress"} /\ outbox[i].score = 0

C26_TwentyMovesScored ==
    /\ Len(selection.moveScores) = 20
    /\ outbox # <<>> /\ outbox[Len(outbox)].type = "move"
    /\ outbox[Len(outbox)].depth = 1


(***************************************************************************)
(* The player starts a new game or takes a move back while the engine's     *)
(* move is outstanding.                                                     *)
(***************************************************************************)
NextLate ==
    \/ /\ chessGame.timers + Len(posted) < MaxGames
       /\ \E m \in {<<6, 4, 4, 4>>, <<6, 3, 4, 3>>} :
             handleSquareClick(m[1], m[2], m[3], m[4])
    \/ TimerMakeAIMove
    \/ ReceiveSearchDrawing({<<1, 4, 3, 4>>})
    \/ handleWorkerMessage
    \/ NewGameClicked
    \/ undoMove

SpecLate == InitGame /\ [][NextLate]_vars

\* The number of results among the first n messages of the worker: the
\* k-th result answers the k-th request.
ResultsAmong(n) ==
    Cardinality({i \in 1..n : outbox[i].type \in {"move", "error"}})

\* handleWorkerMessage plays the move of a result.
ResultPlayed ==
    /\ chessGame'.delivered = chessGame.delivered + 1
    /\ Len(chessGame'.moveHistory) = Len(chessGame.moveHistory) + 1

\* C27: a result is played only on the position that was sent with its
\* request, and only when the engine is to move.
C27_ResultPlayedOnRequestedPosition ==
    [][ResultPlayed =>
        LET request == posted[ResultsAmong(chessGame.delivered + 1)]
        IN  /\ chessGame.board = request.board
            /\ chessGame.currentTurn = request.currentTurn
            /\ chessGame.castlingRights = request.castlingRights
            /\ chessGame.enPassantTarget = request.enPassantTarget
            /\ chessGame.currentTurn = chessGame.aiColor]_vars


\* The poll at the head of the move loop of the running alphaBetaSearch call
\* trips with moves left, and the call returns.
LoopCutShort ==
    /\ stack # <<>> /\ Top.kind = "ab" /\ Top.pc = "loop"
    /\ Top.idx <= Len(Top.orderedMoves)
    /\ TimedOut(nodesSearched)
    /\ Len(stack') < Len(stack)

\* C28: a call of alphaBetaSearch whose move loop is cut short by the
\* deadline, the stop flag or the node budget stores no entry in the
\* transposition table.
C28_CutShortStoresNothing ==
    [][LoopCutShort => transpositionTable' = transpositionTable]_vars


(***************************************************************************)
(* The player takes moves back.                                             *)
(***************************************************************************)
NextUndo ==
    \/ /\ chessGame.timers + Len(posted) < MaxGames
       /\ \E m \in {<<6, 4, 4, 4>>, <<6, 3, 4, 3>>, <<7, 6, 5, 5>>} :
             handleSquareClick(m[1], m[2], m[3], m[4])
    \/ TimerMakeAIMove
    \/ ReceiveSearchDrawing({<<1, 4, 3, 4>>, <<0, 6, 2, 5>>})
    \/ handleWorkerMessage
    \/ undoMove

SpecUndo == InitGame /\ [][NextUndo]_vars

\* undoMove takes back the engine's reply and the player's move before it.
UndoesReplyAndMove ==
    /\ chessGame.currentTurn = chessGame.playerColor
    /\ Len(chessGame.moveHistory) >= 2
    /\ LET n == Len(chessGame.moveHistory)
       IN  /\ getPieceColor(chessGame.moveHistory[n].piece) = chessGame.aiColor
           /\ getPieceColor(chessGame.moveHistory[n - 1].piece) = chessGame.playerColor
    /\ Len(chessGame'.moveHistory) = Len(chessGame.moveHistory) - 2

\* C29: undoMove after a player move and the engine's reply brings back the
\* board, side to move, castling rights, en-passant target, captured pieces,
\* move history and position history of before the player's move.
C29_UndoRestoresGame ==
    [][UndoesReplyAndMove => GameFields(chessGame') = chessGame.beforePlayerMove]_vars


\* The place of a move in the documented order: the cached best move, a
\* capture, a promotion, a killer move of the ply, any other quiet move.
Category(brd, killers, bestMove, move) ==
    IF bestMove # NoMove /\ move = bestMove THEN 0
    ELSE IF brd[move.toRow][move.toCol] # null THEN 1
    ELSE IF /\ toLowerCase(brd[move.fromRow][move.fromCol]) = "p"
            /\ move.toRow \in {0, 7} THEN 2
    ELSE IF move \in Range(killers) THEN 3
    ELSE 4

\* ordered holds the moves of moves, each once, no move before one of an
\* earlier category.
InCategoryOrder(brd, killers, bestMove, moves, ordered) ==
    /\ Len(ordered) = Len(moves)
    /\ Range(ordered) = Range(moves)
    /\ \A i, j \in 1..Len(ordered) :
          i < j => Category(brd, killers, bestMove, ordered[i])
                       <= Category(brd, killers, bestMove, ordered[j])

\* C30: the list orderMoves returns to getBestMove or alphaBetaSearch is a
\* permutation of the moves with the cached best move first, then the
\* captures, the promotions, the killer moves of the ply and the other
\* quiet moves.
C30_OrderedByCategory ==
    [][/\ root.pc = "depthLoop" /\ root'.pc = "moveLoop" =>
            InCategoryOrder(board, killerMoves[0], root.bestMove, root.moves,
                            root'.orderedMoves)
       /\ (/\ stack # <<>> /\ Top.kind = "ab" /\ Top.pc = "entry"
           /\ Len(stack') = Len(stack) /\ stack'[Len(stack')].pc = "loop") =>
            InCategoryOrder(board, killerMoves[Top.searchDepth],
                            IF getFEN(G) \in DOMAIN transpositionTable
                            THEN transpositionTable[getFEN(G)].bestMove ELSE NoMove,
                            getAllValidMoves(G, SideToMove(Top.isMaximizing)),
                            stack'[Len(stack')].orderedMoves)]_vars


(***************************************************************************)
(* The same position is searched again after the rating buttons changed     *)
(* the rating: the player took the move back and played it again, and the   *)
(* second request carries the settings of the new rating.                   *)
(***************************************************************************)
BeforeRating == Request(PawnEnding, Material(2, MaxTime, ManyNodes, FALSE))

AfterRating ==
    Request(PawnEnding,
            [Material(2, MaxTime, ManyNodes, FALSE) EXCEPT !.positionWeight = 1])

NextRerated ==
    \/ \E request \in {BeforeRating, AfterRating} : postMessage(request)
    \/ ReceiveSearch
    \/ RootDepthLoop
    \/ RootMoveLoop
    \/ RootResume
    \/ RootAccept
    \/ RootSelect
    \/ ABEntry
    \/ ABLoop
    \/ ABResume

SpecRerated == Init /\ [][NextRerated]_vars

\* Two bundles of settings score a position the same way.
SameScoring(a, b) ==
    /\ a.positionWeight = b.positionWeight
    /\ a.mobilityWeight = b.mobilityWeight
    /\ a.pawnStructureWeight = b.pawnStructureWeight
    /\ a.kingSafetyWeight = b.kingSafetyWeight
    /\ a.useQuiescence = b.useQuiescence

\* C31: an entry of the transposition table returned for a node was stored
\* by a search that scores positions the same way as the running one, with
\* the same evaluation weights and quiescence flag.
C31_EntryOfSameScoring ==
    ReturnsEntry => SameScoring(ttStoredBy[getFEN(G)].settings, settings)


(***************************************************************************)
(* A game in which a rook is taken on its corner.                           *)
(***************************************************************************)
\* 1. Nf3 g6  2. Ng5 Bg7  3. Nxf7 Nf6  4. Nxh8 O-O, and the rook's pawn of
\* either side moved at any point.
CornerWhiteLine ==
    {<<7, 6, 5, 5>>, <<5, 5, 3, 6>>, <<3, 6, 1, 5>>, <<1, 5, 0, 7>>, <<6, 0, 5, 0>>}

CornerBlackLine ==
    {<<1, 6, 2, 6>>, <<0, 5, 1, 6>>, <<0, 6, 2, 5>>, <<0, 4, 0, 6>>, <<1, 0, 2, 0>>}

NextCorner ==
    \/ \E m \in CornerWhiteLine : handleSquareClick(m[1], m[2], m[3], m[4])
    \/ TimerMakeAIMove
    \/ ReceiveSearchDrawing(CornerBlackLine)
    \/ handleWorkerMessage

SpecCorner == InitGame /\ [][NextCorner]_vars

HomeRow(color) == IF color = "white" THEN 7 ELSE 0
KingOf(color) == IF color = "white" THEN "K" ELSE "k"
RookOf(color) == IF color = "white" THEN "R" ELSE "r"
CornerOf(side) == IF side = "kingside" THEN 7 ELSE 0

\* C32: in every state of the game a held castling right has the colour's
\* king on its home square and its rook on the corner of that side, and
\* every castling move generated for the side to move takes a king from the
\* e-file of its back rank and relocates a rook of its colour.
C32_RightsImplyHomeSquares ==
    /\ \A color \in Colors : \A i \in 1..2 :
          chessGame.castlingRights[color][CastlingSides[i].side] =>
              /\ chessGame.board[HomeRow(color)][4] = KingOf(color)
              /\ chessGame.board[HomeRow(color)][CornerOf(CastlingSides[i].side)]
                    = RookOf(color)
    /\ \A row, col \in 0..7 :
          /\ chessGame.board[row][col] = KingOf(chessGame.currentTurn)
          /\ ~ThrowsValidMovesForPiece(chessGame, row, col)
          => \A target \in Range(getValidMovesForPiece(chessGame, row, col)) :
                Abs(target.col - col) = 2 =>
                    /\ row = HomeRow(chessGame.currentTurn) /\ col = 4
                    /\ chessGame.board[row][IF target.col > col THEN 7 ELSE 0]
                          = RookOf(chessGame.currentTurn)


(***************************************************************************)
(* Searches three plies deep, in which the calls for the engine's second    *)
(* move are cut off.                                                        *)
(***************************************************************************)
ThreePlies ==
    {Request(TwoPawns, [Material(3, MaxTime, ManyNodes, FALSE) EXCEPT
                            !.positionWeight = 1]),
     Request(EnPassant, Material(3, MaxTime, ManyNodes, FALSE))}

NextKillers ==
    \/ \E request \in ThreePlies : postMessage(request)
    \/ ReceiveSearch
    \/ RootDepthLoop
    \/ RootMoveLoop
    \/ RootResume
    \/ RootAccept
    \/ RootSelect
    \/ ABEntry
    \/ ABLoop
    \/ ABResume

SpecKillers == Init /\ [][NextKillers]_vars

\* The running alphaBetaSearch call is cut off by the move it has just
\* searched: the loop is left before its last move, or at it.
CutOff ==
    /\ stack # <<>> /\ Top.kind = "ab" /\ Top.pc = "resume"
    /\ Len(stack') < Len(stack)

\* The move the top call has made takes a piece: the piece that stood on
\* its target, or the pawn it passes on its way to the en-passant target.
TakesPiece ==
    LET move == Top.orderedMoves[Top.idx]
    IN  \/ Top.captured # null
        \/ /\ toLowerCase(Top.piece) = "p"
           /\ enPassantTarget = [row |-> move.toRow, col |-> move.toCol]
           /\ board[move.fromRow][move.toCol] # null

NoDuplicate(list) == \A i, j \in 1..Len(list) : list[i] = list[j] => i = j

\* C33: at every cutoff of alphaBetaSearch the cutting move goes to the
\* front of the killer list of its ply if and only if it takes no piece and
\* is not in the list, the other lists staying as they are, and its history
\* weight grows by depth squared; no killer list ever holds more than two
\* moves or one move twice, and no history weight ever decreases.
C33_CutoffRecorded ==
    [][/\ CutOff =>
            LET move == Top.orderedMoves[Top.idx]
                ply == Top.searchDepth
                stored == ~TakesPiece /\ move \notin Range(killerMoves[ply])
            IN  /\ stored => /\ killerMoves'[ply] # <<>>
                             /\ killerMoves'[ply][1] = move
                             /\ Range(killerMoves'[ply]) \subseteq
                                    Range(killerMoves[ply]) \cup {move}
                /\ ~stored => killerMoves'[ply] = killerMoves[ply]
                /\ \A other \in DOMAIN killerMoves :
                      other # ply => killerMoves'[other] = killerMoves[other]
                /\ HistoryOf(historyTable', move)
                      = HistoryOf(historyTable, move) + Top.depth * Top.depth
       /\ \A ply \in DOMAIN killerMoves :
             Len(killerMoves'[ply]) <= 2 /\ NoDuplicate(killerMoves'[ply])
       /\ \A move \in DOMAIN historyTable :
             HistoryOf(historyTable', move) >= historyTable[move]]_vars


(***************************************************************************)
(* Quiescence.  Six pieces bear on d5: after e4xd5 the exchange on d5 runs  *)
(* e6xd5, Nc3xd5, Nf6xd5, Rd1xd5, Bb7xd5, Bb3xd5.                           *)
(***************************************************************************)
Exchange ==
    Position(<< <<7, 0, "K">>, <<7, 3, "R">>, <<5, 2, "N">>, <<5, 1, "B">>,
                <<4, 4, "P">>, <<3, 3, "p">>, <<2, 4, "p">>, <<2, 5, "n">>,
                <<1, 1, "b">>, <<1, 7, "p">>, <<0, 7, "k">> >>,
             "white", NoCastling, NoTarget)

Quiescent ==
    {Request(Exchange, Material(1, MaxTime, ManyNodes, TRUE)),
     Request(QueenHangs, Material(1, MaxTime, ManyNodes, FALSE))}

NextQuiescence ==
    \/ \E request \in Quiescent : makeAIMove(request)
    \/ WorkerReplied
    \/ ReceiveSearch
    \/ RootDepthLoop
    \/ RootMoveLoop
    \/ RootResume
    \/ RootAccept
    \/ RootSelect
    \/ ABEntry
    \/ ABLeaf
    \/ QSEntry
    \/ QSLoop
    \/ QSResume

SpecQuiescence == Init /\ [][NextQuiescence]_vars

\* The running quiescenceSearch call makes a move and calls itself.
QSMakesMove ==
    /\ stack # <<>> /\ Top.kind = "qs" /\ Top.pc = "loop"
    /\ Len(stack') > Len(stack)

\* The frames of quiescenceSearch are those of a chain of at most six calls,
\* depths 0 to 5, begun by a depth-0 call of alphaBetaSearch under settings
\* with quiescence.
QuiescenceChain(frames) ==
    \A i \in 1..Len(frames) :
        frames[i].kind = "qs" =>
            /\ settings.useQuiescence
            /\ frames[i].depth \in 0..5
            /\ i > 1
            /\ IF frames[i].depth = 0
               THEN /\ frames[i - 1].kind = "ab" /\ frames[i - 1].depth = 0
                    /\ frames[i - 1].pc = "leaf"
               ELSE /\ frames[i - 1].kind = "qs"
                    /\ frames[i - 1].depth = frames[i].depth - 1

\* C34: quiescenceSearch runs only under a depth-0 call of alphaBetaSearch
\* of a search whose settings enable it, its calls nest at most five moves
\* deep, and every move it makes takes the piece on its target or leaves
\* the opponent's king attacked.
C34_QuiescenceTacticalAndCapped ==
    [][/\ QuiescenceChain(stack')
       /\ QSMakesMove =>
            LET move == Top.orderedMoves[Top.idx]
                opponent == opponentOf(SideToMove(Top.isMaximizing))
                king == FindKing(board', opponent)
            IN  /\ Top.depth <= 4
                /\ \/ board[move.toRow][move.toCol] # null
                   \/ Attacked([G EXCEPT !.board = board'], king.row, king.col,
                               opponent)]_vars

\* The exchange has reached the cap: the call five moves past the horizon
\* has returned to the call that made the fifth capture, without making
\* the capture its side has there.
C34_FifthCaptureSearched ==
    /\ stack # <<>> /\ Top.kind = "qs" /\ Top.pc = "resume" /\ Top.depth = 4
    /\ Top.captured # null
    /\ \E move \in Range(getAllValidMoves(G, SideToMove(~Top.isMaximizing))) :
          board[move.toRow][move.toCol] # null


\* The worker takes a search message from its queue.
TakesSearch ==
    /\ ~Searching
    /\ inbox # <<>> /\ Head(inbox).type = "search"
    /\ Len(inbox') < Len(inbox)

\* C35: the handler of a search request sets the node counter to 0, the
\* counter never exceeds maxNodes + 1 while the request is searched, and
\* no progress or move message carries a node count above maxNodes + 1.
C35_NodeCountWithinBudget ==
    [][/\ TakesSearch => nodesSearched' = 0
       /\ Searching' => nodesSearched' <= settings'.maxNodes + 1
       /\ \A i \in (Len(outbox) + 1)..Len(outbox') :
             outbox'[i].type \in {"progress", "move"} =>
                 outbox'[i].nodes <= settings'.maxNodes + 1]_vars

\* The search of a second request has used its node budget and one node
\* more.
C35_BudgetUsedAgain ==
    /\ Len(posted) = 2 /\ inbox = <<>> /\ Searching
    /\ nodesSearched = settings.maxNodes + 1




(***************************************************************************)
(* The player's clicks one at a time: a click selects a piece, and a later  *)
(* click on one of the squares kept for it moves the piece.  The player     *)
(* takes moves back while the engine's moves are outstanding.               *)
(***************************************************************************)
\* handleSquareClick(row, col) in play mode: one click.  An exception of
\* makeMove leaves the selection as it was.
clickSquare(row, col) ==
    /\ chessGame.timers + Len(posted) < MaxSearches
    /\ ~chessGame.gameOver
    /\ ~chessGame.lessonMode
    /\ chessGame.currentTurn = chessGame.playerColor
    /\ LET piece == chessGame.board[row][col]
           own == piece # null /\ getPieceColor(piece) = chessGame.currentTurn
           isValidMove == /\ chessGame.selectedSquare # NoTarget
                          /\ [row |-> row, col |-> col] \in Range(chessGame.validMoves)
           unselected(game) ==
               [game EXCEPT !.selectedSquare = NoTarget, !.validMoves = <<>>]
       IN  IF isValidMove
           THEN \E played \in PlayMove(chessGame, chessGame.selectedSquare.row,
                                       chessGame.selectedSquare.col, row, col) :
                    chessGame' =
                        IF played.threw THEN played.game
                        ELSE IF /\ ~played.game.gameOver
                                /\ played.game.currentTurn = played.game.aiColor
                        THEN [unselected(played.game) EXCEPT
                                 !.timers = @ + 1,
                                 !.beforePlayerMove = GameFields(chessGame)]
                        ELSE [unselected(played.game) EXCEPT
                                 !.beforePlayerMove = GameFields(chessGame)]
           ELSE IF own
           THEN /\ ~ThrowsValidMovesForPiece(chessGame, row, col)
                /\ chessGame' =
                      [chessGame EXCEPT
                          !.selectedSquare = [row |-> row, col |-> col],
                          !.validMoves = getValidMovesForPiece(chessGame, row, col)]
           ELSE chessGame' = unselected(chessGame)
    /\ poll' = "none"
    /\ UNCHANGED <<workerSide, inbox, outbox, aiStartTime, hardTimeoutId, posted, now>>

\* e2 and e4
ClickedSquares == {<<6, 4>>, <<4, 4>>}

\* The searches of one behaviour, those not yet posted with them.
MaxClicked == 3

\* e7-e5 and e5-e4
AdvancingLine == {<<1, 4, 3, 4>>, <<3, 4, 4, 4>>}

NextClicks ==
    \/ /\ chessGame.timers + Len(posted) < MaxClicked
       /\ \E square \in ClickedSquares : clickSquare(square[1], square[2])
    \/ TimerMakeAIMove
    \/ ReceiveSearchDrawing(AdvancingLine)
    \/ handleWorkerMessage
    \/ undoMove

SpecClicks == InitGame /\ [][NextClicks]_vars

\* A move is recorded in the step.
MoveApplied == Len(chessGame'.moveHistory) = Len(chessGame.moveHistory) + 1

\* A click of the player, and not a result of the worker, applies a move.
ClickApplied == MoveApplied /\ chessGame'.delivered = chessGame.delivered

\* The move applied in the step.
Applied == chessGame'.moveHistory[Len(chessGame'.moveHistory)]

\* C36: in play mode a click changes the board only when the game is not
\* over, it is the player's turn and the clicked cell is one of the valid
\* moves of the selected piece of the side to move; every applied move flips
\* the side to move; gameOver becomes true exactly when the side to move has
\* no valid move, and stays true until newGame or undoMove.
C36_ClickAppliesValidMove ==
    [][/\ (chessGame'.board # chessGame.board /\ chessGame'.delivered = chessGame.delivered
              /\ Len(chessGame'.moveHistory) >= Len(chessGame.moveHistory)
              /\ chessGame'.moveHistory # <<>>)
          => /\ ClickApplied
             /\ ~chessGame.gameOver
             /\ chessGame.currentTurn = chessGame.playerColor
             /\ chessGame.selectedSquare =
                    [row |-> Applied.fromRow, col |-> Applied.fromCol]
             /\ chessGame.board[Applied.fromRow][Applied.fromCol] # null
             /\ getPieceColor(chessGame.board[Applied.fromRow][Applied.fromCol])
                    = chessGame.currentTurn
             /\ [row |-> Applied.toRow, col |-> Applied.toCol]
                    \in Range(getValidMovesForPiece(chessGame, Applied.fromRow,
                                                    Applied.fromCol))
       /\ MoveApplied => chessGame'.currentTurn = opponentOf(chessGame.currentTurn)
       /\ (MoveApplied /\ ~chessGame.gameOver
              /\ ~ThrowsAllValidMoves(chessGame', chessGame'.currentTurn))
          => (chessGame'.gameOver
                <=> getAllValidMoves(chessGame', chessGame'.currentTurn) = <<>>)
       /\ (chessGame.gameOver /\ ~chessGame'.gameOver)
          => Len(chessGame'.moveHistory) < Len(chessGame.moveHistory)]_vars


(***************************************************************************)
(* Searches one ply deep from either side, with each of the evaluation      *)
(* weights off and on, and with a node budget that runs out.                *)
(***************************************************************************)
Sides == {"white", "black"}

\* getAISettings gives no weight below zero.
Weightings ==
    {[positionWeight |-> w[1], mobilityWeight |-> w[2],
      pawnStructureWeight |-> w[3], kingSafetyWeight |-> w[4]] :
        w \in {<<0, 0, 0, 0>>, <<1, 0, 0, 0>>, <<0, 1, 0, 0>>, <<0, 0, 1, 0>>,
               <<0, 0, 0, 1>>, <<2, 1, 1, 1>>}}

Weighted(base, weighting) ==
    [base EXCEPT !.positionWeight = weighting.positionWeight,
                 !.mobilityWeight = weighting.mobilityWeight,
                 !.pawnStructureWeight = weighting.pawnStructureWeight,
                 !.kingSafetyWeight = weighting.kingSafetyWeight]

Evaluated ==
    {Request([position EXCEPT !.aiColor = side, !.currentTurn = side],
             Weighted(Material(1, MaxTime, nodes, FALSE), weighting)) :
        position \in {QueenHangs, TwoPawns, Exchange}, side \in Sides,
        weighting \in Weightings, nodes \in {MaxNodes, ManyNodes}}

NextEvaluated ==
    \/ \E request \in Evaluated : makeAIMove(request)
    \/ WorkerReplied
    \/ ReceiveSearch
    \/ RootDepthLoop
    \/ RootMoveLoop
    \/ RootResume
    \/ RootAccept
    \/ RootSelect
    \/ ABEntry

SpecEvaluated == Init /\ [][NextEvaluated]_vars

Unweighted(s) ==
    /\ s.positionWeight = 0 /\ s.mobilityWeight = 0
    /\ s.pawnStructureWeight = 0 /\ s.kingSafetyWeight = 0

\* The values of the pieces of color on the board, added up kind by kind.
MaterialOf(brd, color) ==
    LET count(white, black) ==
            Cardinality({sq \in Range(AllSquares) :
                brd[sq.row][sq.col] = (IF color = "white" THEN white ELSE black)})
    IN  100 * count("P", "p") + 320 * count("N", "n") + 330 * count("B", "b")
          + 500 * count("R", "r") + 900 * count("Q", "q") + 20000 * count("K", "k")

\* The position seen with the other side as the engine.
Swapped(g) == [g EXCEPT !.aiColor = opponentOf(@)]

\* A call of alphaBetaSearch at depth 0 is entered and returns.
LeafReturns ==
    /\ stack # <<>> /\ Top.kind = "ab" /\ Top.pc = "entry" /\ Top.depth = 0
    /\ stack' = Front(stack) /\ outbox' = outbox

\* The call returns evaluatePosition(settings).
ReturnsEvaluatePosition ==
    /\ LeafReturns /\ poll' = "clear" /\ ~settings.useQuiescence
    /\ countRepetitions(G, positionHistory) < 2
    /\ getFEN(G) \notin DOMAIN transpositionTable

\* The call returns quickEval(settings).
ReturnsQuickEval == LeafReturns /\ poll' = "tripped"

\* C37: with every positional weight zero evaluatePosition equals quickEval,
\* which is the sum of the engine's piece values minus the sum of the
\* opponent's; with the other side as the engine both have the opposite
\* sign; and the result is the material balance and the terms whose weight
\* is greater than zero.
C37_MaterialWhenUnweighted ==
    [][/\ ReturnsEvaluatePosition =>
            /\ Unweighted(settings) => ret' = quickEval(G)
            /\ ~ThrowsEvaluatePosition(Swapped(G), settings)
                  => ret' = -evaluatePosition(Swapped(G), settings)
            /\ ret' = MaterialOf(board, aiColor) - MaterialOf(board, opponentOf(aiColor))
                  + (IF settings.positionWeight > 0
                     THEN evaluatePosition(G, [settings EXCEPT
                              !.mobilityWeight = 0, !.pawnStructureWeight = 0,
                              !.kingSafetyWeight = 0]) - quickEval(G)
                     ELSE 0)
                  + (IF settings.mobilityWeight > 0
                     THEN evaluateMobility(G, settings) ELSE 0)
                  + (IF settings.pawnStructureWeight > 0
                     THEN evaluatePawnStructure(G, settings) ELSE 0)
                  + (IF settings.kingSafetyWeight > 0
                     THEN evaluateKingSafety(G, settings) ELSE 0)
       /\ ReturnsQuickEval =>
            /\ ret' = MaterialOf(board, aiColor) - MaterialOf(board, opponentOf(aiColor))
            /\ ret' = -quickEval(Swapped(G))]_vars

\* A leaf of the search for black has been scored with every weight zero,
\* on a board where the material is not level.
C37_UnweightedLeafForBlack ==
    /\ root.pc = "resume" /\ stack = <<>> /\ poll = "clear"
    /\ aiColor = "black" /\ Unweighted(settings)
    /\ ret = MaterialOf(board, "black") - MaterialOf(board, "white")
    /\ ret # 0


(***************************************************************************)
(* Lessons: the learner starts a lesson and clicks on its board.            *)
(***************************************************************************)
MaxLevel == 8

\* ProgressTracker.calculateLevel: Math.floor(Math.sqrt(xp / 100)) + 1
calculateLevel(xp) ==
    (CHOOSE n \in 0..MaxLevel : 100 * n * n <= xp /\ xp < 100 * (n + 1) * (n + 1)) + 1

\* ProgressTracker.addXP
addXP(progress, amount) ==
    LET totalXP == progress.totalXP + amount
        newLevel == calculateLevel(totalXP)
    IN  [totalXP |-> totalXP,
         level |-> IF newLevel > progress.level THEN newLevel ELSE progress.level]

\* LessonEngine.completeCurrentLesson, as the progress it leaves.
completeCurrentLesson(game, points) ==
    IF game.lessonEngine.currentLesson = NoLesson THEN game.progressTracker
    ELSE addXP(game.progressTracker, points)

\* LessonEngine.validateMove: every move is valid, the solution is correct
\* and earns the lesson's points, or 100 where it names none.
validateMove(lesson, fromRow, fromCol, toRow, toCol) ==
    LET correct ==
            lesson.solution = [fromRow |-> fromRow, fromCol |-> fromCol,
                               toRow |-> toRow, toCol |-> toCol]
    IN  [valid |-> TRUE, correct |-> correct,
         points |-> IF ~correct THEN 0
                    ELSE IF lesson.points = 0 THEN 100 ELSE lesson.points]

\* The lessons: take the queen with the pawn, and push the rook's pawn two
\* squares.  White's king has castled, so that no castling right left over
\* from the game before is probed for it.
Lessons ==
    {[id |-> 1,
      board |-> BoardOf(<< <<7, 6, "K">>, <<7, 3, "R">>, <<5, 1, "P">>, <<4, 2, "q">>,
                           <<0, 7, "k">> >>),
      playerColor |-> "white",
      solution |-> [fromRow |-> 5, fromCol |-> 1, toRow |-> 4, toCol |-> 2],
      points |-> 150],
     [id |-> 2,
      board |-> BoardOf(<< <<7, 6, "K">>, <<7, 3, "R">>, <<6, 0, "P">>,
                           <<0, 7, "k">> >>),
      playerColor |-> "white",
      solution |-> [fromRow |-> 6, fromCol |-> 0, toRow |-> 4, toCol |-> 0],
      points |-> 0]}

\* The moves made on lesson boards in one behaviour.
MaxLessonMoves == 3

\* LessonEngine.startLesson: setupLessonPosition loads the position and
\* turns lesson mode on.
startLesson(lesson) ==
    /\ Len(chessGame.moveHistory) < MaxLessonMoves
    /\ chessGame' = [chessGame EXCEPT
                        !.lessonEngine = [currentLesson |-> lesson],
                        !.lessonMode = TRUE,
                        !.board = lesson.board,
                        !.currentTurn = lesson.playerColor,
                        !.gameOver = FALSE,
                        !.selectedSquare = NoTarget, !.validMoves = <<>>,
                        !.playerColor = lesson.playerColor,
                        !.aiColor = opponentOf(lesson.playerColor)]
    /\ poll' = "none"
    /\ UNCHANGED <<workerSide, inbox, outbox, aiStartTime, hardTimeoutId, posted, now>>

\* handleSquareClick(row, col) in lesson mode: handleLessonSquareClick.  An
\* exception of makeMove leaves the selection and the progress as they were.
handleLessonSquareClick(row, col) ==
    /\ ~chessGame.gameOver
    /\ chessGame.lessonMode
    /\ chessGame.lessonEngine.currentLesson # NoLesson
    /\ chessGame.currentTurn = chessGame.lessonEngine.currentLesson.playerColor
    /\ LET lesson == chessGame.lessonEngine.currentLesson
           piece == chessGame.board[row][col]
           own == piece # null /\ getPieceColor(piece) = chessGame.currentTurn
           isValidMove == /\ chessGame.selectedSquare # NoTarget
                          /\ [row |-> row, col |-> col] \in Range(chessGame.validMoves)
           result == validateMove(lesson, chessGame.selectedSquare.row,
                                  chessGame.selectedSquare.col, row, col)
           awarded(game) ==
               IF ~result.correct THEN game
               ELSE \* addXP, and addXP again in completeCurrentLesson
                    LET once == [game EXCEPT
                                    !.progressTracker = addXP(@, result.points)]
                    IN  [once EXCEPT
                            !.progressTracker =
                                completeCurrentLesson(once, result.points)]
       IN  IF isValidMove
           THEN \E played \in PlayMove(chessGame, chessGame.selectedSquare.row,
                                       chessGame.selectedSquare.col, row, col) :
                    chessGame' =
                        IF played.threw THEN played.game
                        ELSE awarded([played.game EXCEPT
                                         !.selectedSquare = NoTarget,
                                         !.validMoves = <<>>])
           ELSE IF own
           THEN /\ ~ThrowsValidMovesForPiece(chessGame, row, col)
                /\ chessGame' =
                      [chessGame EXCEPT
                          !.selectedSquare = [row |-> row, col |-> col],
                          !.validMoves = getValidMovesForPiece(chessGame, row, col)]
           ELSE chessGame' =
                   [chessGame EXCEPT !.selectedSquare = NoTarget, !.validMoves = <<>>]
    /\ poll' = "none"
    /\ UNCHANGED <<workerSide, inbox, outbox, aiStartTime, hardTimeoutId, posted, now>>

\* b3, c4 and b4; a2, a4 and a3
LessonSquares == {<<5, 1>>, <<4, 2>>, <<4, 1>>, <<6, 0>>, <<4, 0>>, <<5, 0>>}

NextLessons ==
    \/ \E lesson \in Lessons : startLesson(lesson)
    \/ \E square \in LessonSquares : handleLessonSquareClick(square[1], square[2])

SpecLessons == Init /\ [][NextLessons]_vars

\* The click plays the solution of the lesson.
CorrectLessonMove ==
    /\ chessGame.lessonMode
    /\ Len(chessGame'.moveHistory) = Len(chessGame.moveHistory) + 1
    /\ LET move == chessGame'.moveHistory[Len(chessGame'.moveHistory)]
       IN  chessGame.lessonEngine.currentLesson.solution =
              [fromRow |-> move.fromRow, fromCol |-> move.fromCol,
               toRow |-> move.toRow, toCol |-> move.toCol]

\* The points of a lesson: those it names, or 100.
PointsOf(lesson) == IF lesson.points = 0 THEN 100 ELSE lesson.points

\* C38: a correct lesson move adds the lesson's points to the total XP
\* exactly once; the level is floor(sqrt(totalXP / 100)) + 1 and never
\* decreases as XP is added.
C38_PointsAddedOnce ==
    [][/\ CorrectLessonMove =>
            chessGame'.progressTracker.totalXP =
                chessGame.progressTracker.totalXP
                    + PointsOf(chessGame.lessonEngine.currentLesson)
       /\ \A n \in 0..MaxLevel :
            (/\ 100 * n * n <= chessGame'.progressTracker.totalXP
             /\ chessGame'.progressTracker.totalXP < 100 * (n + 1) * (n + 1))
            => chessGame'.progressTracker.level = n + 1
       /\ chessGame'.progressTracker.level >= chessGame.progressTracker.level]_vars

=============================================================================
